---------------------------- MODULE Spec2Model ----------------------------
(***************************************************************************)
(* Client side of the remote driver (src/src/remote_internal.c):           *)
(* remoteOpen, remoteClose, the per-procedure stubs and the RPC engine     *)
(* call() with its really_write / really_read loops.                       *)
(*                                                                         *)
(* Every driver operation is one action.  What the environment does during *)
(* an operation (how each write/read system call ends, what frame the      *)
(* server answers with, how dialling each address ends) is an input of the *)
(* action, drawn from a bounded set.  The variable op records what the     *)
(* last operation did: its return value, the errors it raised and the      *)
(* really_write / really_read invocations it made.                         *)
(***************************************************************************)
EXTENDS Integers, Sequences, FiniteSets, TLC

(***************************************************************************)
(* Program constants                                                       *)
(***************************************************************************)
MAGIC == 999
DEAD == 998

\* Largest and smallest value of a C int (private_data.counter, len in call).
INT_MAX == 2147483647
INT_MIN == (-INT_MAX) - 1

\* remote_protocol.h: size of call()'s buffer and ceiling of a reply body.
REMOTE_MESSAGE_MAX == 262144
\* Encoded size of struct remote_message_header: six 4-byte XDR words.
HEADER_LEN == 24

\* Header values of remote_protocol.h, kept symbolic.
REMOTE_PROGRAM == "REMOTE_PROGRAM"
REMOTE_PROTOCOL_VERSION == "REMOTE_PROTOCOL_VERSION"
REMOTE_CALL == "REMOTE_CALL"
REMOTE_REPLY == "REMOTE_REPLY"
REMOTE_OK == "REMOTE_OK"
REMOTE_ERROR == "REMOTE_ERROR"

VIR_DRV_OPEN_SUCCESS == "VIR_DRV_OPEN_SUCCESS"
VIR_DRV_OPEN_DECLINED == "VIR_DRV_OPEN_DECLINED"
VIR_DRV_OPEN_ERROR == "VIR_DRV_OPEN_ERROR"

(***************************************************************************)
(* Bounds of the model                                                     *)
(***************************************************************************)
\* Driver operations invoked on one connection after remoteOpen.
MaxOps == 2
\* System calls per operation whose outcome the environment chooses freely;
\* every later system call of the operation transfers all it is asked for.
MaxIo == 1
\* Addresses getaddrinfo returns for one host.
MaxAddrs == 2
\* Elements of the largest array a stub may send or accept.
MaxElems == 2
\* Bytes of the longest buffer really_read and really_write are run on.
MaxLen == 3

(***************************************************************************)
(* Small helpers                                                           *)
(***************************************************************************)
Min(a, b) == IF a < b THEN a ELSE b

SeqsUpTo(S, n) == UNION {[1..k -> S] : k \in 0..n}

\* The error record handed to __virRaiseError: code, message, and whether the
\* connection handle (or NULL) was passed.
RaisedError(onConn, code, info) ==
    [conn |-> IF onConn THEN "conn" ELSE "NULL", code |-> code, info |-> info]

(***************************************************************************)
(* XDR encoding of an int (xdr_int): four bytes, big-endian, two's         *)
(* complement.                                                             *)
(***************************************************************************)
xdr_int_encode(n) ==
    LET u == IF n >= 0 THEN n ELSE n - INT_MIN      \* low 31 bits
        top == (u \div 16777216) + (IF n >= 0 THEN 0 ELSE 128)
    IN  <<top, (u \div 65536) % 256, (u \div 256) % 256, u % 256>>

xdr_int_decode(b) ==
    IF b[1] < 128
    THEN ((b[1] * 256 + b[2]) * 256 + b[3]) * 256 + b[4]
    ELSE INT_MIN + ((((b[1] - 128) * 256 + b[2]) * 256 + b[3]) * 256 + b[4])


(***************************************************************************)
(* System calls on the channel.  An outcome is what one write/read (or     *)
(* gnutls_record_send/recv) returns: ret >= 0 is the number of bytes the   *)
(* call is ready to transfer (the call transfers at most what it is asked  *)
(* for; 0 from a read is end-of-stream), ret = -1 is a failure with errno. *)
(* On a TLS session EINTR and EAGAIN stand for GNUTLS_E_INTERRUPTED and    *)
(* GNUTLS_E_AGAIN and every other errno for a fatal GnuTLS error code.     *)
(***************************************************************************)
Transferred(k) == [ret |-> k, errno |-> "none"]
SysFailed(e) == [ret |-> -1, errno |-> e]

IoOutcomes ==
    {Transferred(0), Transferred(1),
     SysFailed("EINTR"), SysFailed("EAGAIN"), SysFailed("EIO")}

IoScripts == SeqsUpTo(IoOutcomes, MaxIo)

\* The outcome of the next system call for len bytes: EBADF on a descriptor
\* that has been closed, else the next outcome the environment scripted, else
\* (script used up) a transfer of everything asked for.
NextOutcome(chanOpen, len, script) ==
    IF ~chanOpen THEN SysFailed("EBADF")
    ELSE IF script = <<>> THEN Transferred(IF len > 0 THEN len ELSE 0)
    ELSE Head(script)

IsTransient(o) == o.errno \in {"EINTR", "EAGAIN"}

\* Error code of a failed system call on the channel.
IoErrorCode(uses_tls) ==
    IF uses_tls THEN "VIR_ERR_GNUTLS_ERROR" ELSE "VIR_ERR_SYSTEM_ERROR"

(***************************************************************************)
(* really_write: do { err = write (p, len); ... } while (len > 0).         *)
(* The result: ok, the bytes handed to the channel (n), the rest of the    *)
(* environment's script, and the errors raised.                            *)
(***************************************************************************)
RECURSIVE write_loop(_, _, _, _, _, _)
write_loop(uses_tls, chanOpen, in_open, len, n, script) ==
    LET o == NextOutcome(chanOpen, len, script)
        rest == IF script = <<>> THEN <<>> ELSE Tail(script)
        k == Min(o.ret, len)
    IN  IF o.ret < 0
        THEN IF IsTransient(o)
             THEN \* continue: jumps to the test of the do-while
                  IF len > 0
                  THEN write_loop(uses_tls, chanOpen, in_open, len, n, rest)
                  ELSE [ok |-> TRUE, n |-> n, script |-> rest, errs |-> <<>>]
             ELSE [ok |-> FALSE, n |-> n, script |-> rest,
                   errs |-> <<RaisedError(~in_open, IoErrorCode(uses_tls),
                                          o.errno)>>]
        ELSE IF len - k > 0
             THEN write_loop(uses_tls, chanOpen, in_open, len - k, n + k, rest)
             ELSE [ok |-> TRUE, n |-> n + k, script |-> rest, errs |-> <<>>]

really_write(uses_tls, chanOpen, in_open, len, script) ==
    write_loop(uses_tls, chanOpen, in_open, len, 0, script)

(***************************************************************************)
(* really_read: as really_write, and a transfer of 0 bytes is an error.    *)
(***************************************************************************)
RECURSIVE read_loop(_, _, _, _, _, _)
read_loop(uses_tls, chanOpen, in_open, len, n, script) ==
    LET o == NextOutcome(chanOpen, len, script)
        rest == IF script = <<>> THEN <<>> ELSE Tail(script)
        k == Min(o.ret, len)
    IN  IF o.ret < 0
        THEN IF IsTransient(o)
             THEN IF len > 0
                  THEN read_loop(uses_tls, chanOpen, in_open, len, n, rest)
                  ELSE [ok |-> TRUE, n |-> n, script |-> rest, errs |-> <<>>]
             ELSE [ok |-> FALSE, n |-> n, script |-> rest,
                   errs |-> <<RaisedError(~in_open, IoErrorCode(uses_tls),
                                          o.errno)>>]
        ELSE IF k = 0
             THEN [ok |-> FALSE, n |-> n, script |-> rest,
                   errs |-> <<RaisedError(~in_open, "VIR_ERR_RPC",
                                          "socket closed unexpectedly")>>]
             ELSE IF len - k > 0
                  THEN read_loop(uses_tls, chanOpen, in_open, len - k, n + k, rest)
                  ELSE [ok |-> TRUE, n |-> n + k, script |-> rest, errs |-> <<>>]

really_read(uses_tls, chanOpen, in_open, len, script) ==
    read_loop(uses_tls, chanOpen, in_open, len, 0, script)

(***************************************************************************)
(* call: one remote procedure call.                                        *)
(*                                                                         *)
(*   p        the private data (local to remoteOpen during the open call)  *)
(*   chanOpen whether p.sock is still an open descriptor                   *)
(*   argsLen  the bytes args_filter encodes for this call's arguments      *)
(*   retVoid  whether ret_filter is xdr_void                               *)
(*   env      what the environment does: io, the outcomes of the system    *)
(*            calls; reply, the frame the server answers with (its length  *)
(*            word, its header, and whether the body after the header      *)
(*            decodes as the procedure's ret / as a remote_error); ub and  *)
(*            ubLen, the values an overflowing counter++ and an            *)
(*            overflowing len -= 4 produce (signed overflow is undefined). *)
(*                                                                         *)
(* The result: ret (0 or -1), the new counter, the serial used, the errors *)
(* raised, the really_write/really_read invocations made (io), whether     *)
(* ret_filter was invoked, and the bytes encoded into buffer.              *)
(***************************************************************************)
\* A counter that is read but not advanced.
counter_kept(counter, ub) == counter

\* priv->counter++
counter_increment(counter, ub) == IF counter = INT_MAX THEN ub ELSE counter + 1

\* A length word that counts the encoded bytes only.
request_length_exclusive(encoded) == encoded

\* len += 4 on the request: the length word counts itself.
request_length(encoded) == encoded + 4

\* len -= 4 on the reply, then the range test of the body length.
reply_body_length(lenword, ubLen) ==
    IF lenword < INT_MIN + 4 THEN ubLen ELSE lenword - 4

\* A range test with no ceiling.
body_length_nonnegative(len) == ~(len < 0)

body_length_ok(len) == ~(len < 0 \/ len > REMOTE_MESSAGE_MAX)

\* The checks of the reply header without the one of the serial.
header_mismatch_without_serial(hdr, proc_nr, serial) ==
    IF hdr.prog # REMOTE_PROGRAM THEN "unknown program"
    ELSE IF hdr.vers # REMOTE_PROTOCOL_VERSION THEN "unknown protocol version"
    ELSE IF hdr.proc # proc_nr THEN "unknown procedure"
    ELSE IF hdr.direction # REMOTE_REPLY THEN "unknown direction"
    ELSE ""

\* The checks of the reply header, in the code's order: the message of the
\* first one that fails, "" when all pass.
header_mismatch(hdr, proc_nr, serial) ==
    IF hdr.prog # REMOTE_PROGRAM THEN "unknown program"
    ELSE IF hdr.vers # REMOTE_PROTOCOL_VERSION THEN "unknown protocol version"
    ELSE IF hdr.proc # proc_nr THEN "unknown procedure"
    ELSE IF hdr.direction # REMOTE_REPLY THEN "unknown direction"
    ELSE IF hdr.serial # serial THEN "unknown serial"
    ELSE ""

\* A switch whose default falls into the REMOTE_OK case.
status_dispatch_default_ok(hdr, in_open, retVoid, reply) ==
    IF hdr.status = REMOTE_ERROR
    THEN IF reply.errOk
         THEN [ret |-> -1, ret_filter |-> FALSE,
               errs |-> <<RaisedError(~in_open, reply.rerror, "server_error")>>]
         ELSE [ret |-> -1, ret_filter |-> FALSE,
               errs |-> <<RaisedError(~in_open, "VIR_ERR_RPC",
                                      "unmarshalling remote_error")>>]
    ELSE IF retVoid \/ reply.retOk
         THEN [ret |-> 0, errs |-> <<>>, ret_filter |-> TRUE]
         ELSE [ret |-> -1, ret_filter |-> TRUE,
               errs |-> <<RaisedError(~in_open, "VIR_ERR_RPC",
                                      "unmarshalling ret")>>]

\* switch (hdr.status): what is decoded from the rest of the buffer and the
\* call's return value.
status_dispatch(hdr, in_open, retVoid, reply) ==
    CASE hdr.status = REMOTE_OK ->
           IF retVoid \/ reply.retOk
           THEN [ret |-> 0, errs |-> <<>>, ret_filter |-> TRUE]
           ELSE [ret |-> -1, ret_filter |-> TRUE,
                 errs |-> <<RaisedError(~in_open, "VIR_ERR_RPC",
                                        "unmarshalling ret")>>]
      [] hdr.status = REMOTE_ERROR ->
           IF reply.errOk
           THEN [ret |-> -1, ret_filter |-> FALSE,
                 errs |-> <<RaisedError(~in_open, reply.rerror, "server_error")>>]
           ELSE [ret |-> -1, ret_filter |-> FALSE,
                 errs |-> <<RaisedError(~in_open, "VIR_ERR_RPC",
                                        "unmarshalling remote_error")>>]
      [] OTHER ->
           [ret |-> -1, ret_filter |-> FALSE,
            errs |-> <<RaisedError(~in_open, "VIR_ERR_RPC", "unknown status")>>]

IoRecord(fn, buf, len, r, data) ==
    [fn |-> fn, buf |-> buf, len |-> len, n |-> r.n, ok |-> r.ok, data |-> data]

\* The stages of call, last first.  c holds what is fixed during the call:
\* its parameters, the serial, the incremented counter, the bytes encoded into
\* buffer (xdr_getpos) and the length of the request; io lists the
\* really_write/really_read invocations made so far.
call_result(c, ret, errs, io, ret_filter) ==
    [ret |-> ret, counter |-> c.counter, serial |-> c.serial, errs |-> errs,
     io |-> io, ret_filter |-> ret_filter, encoded |-> c.encoded]

call_fail(c, io, errs) == call_result(c, -1, errs, io, FALSE)

\* An Rpc error that is always raised on the handle.
call_rpc_error_on_conn(c, io, info) ==
    call_fail(c, io, <<RaisedError(TRUE, "VIR_ERR_RPC", info)>>)

call_rpc_error(c, io, info) ==
    call_fail(c, io, <<RaisedError(~c.in_open, "VIR_ERR_RPC", info)>>)

call_dispatch(c, io, st) == call_result(c, st.ret, st.errs, io, st.ret_filter)

\* Deserialise reply header, check it, switch on the status.
call_reply(c, io, rlen, bad) ==
    IF rlen < HEADER_LEN
    THEN call_rpc_error(c, io, "xdr_remote_message_header (reply)")
    ELSE IF bad # "" THEN call_rpc_error(c, io, bad)
    ELSE call_dispatch(c, io,
             status_dispatch(c.env.reply.hdr, c.in_open, c.retVoid, c.env.reply))

\* r2: the result of reading the reply header and what follows.
call_read_body(c, io3, rlen, r2) ==
    IF ~r2.ok
    THEN call_fail(c, Append(io3, IoRecord("really_read", "buffer", rlen, r2, <<>>)),
                   r2.errs)
    ELSE call_reply(c, Append(io3, IoRecord("really_read", "buffer", rlen, r2, <<>>)),
                    rlen, header_mismatch(c.env.reply.hdr, c.proc_nr, c.serial))

\* The length word is deserialised, adjusted and checked; then the body is read.
call_reply_length(c, io3, script, rlen) ==
    IF ~body_length_ok(rlen)
    THEN call_rpc_error(c, io3, "packet received from server too large")
    ELSE call_read_body(c, io3, rlen,
             really_read(c.uses_tls, c.chanOpen, c.in_open, rlen, script))

\* r1: the result of reading the length word, whose bytes are received.
call_read_length(c, io2, r1, received) ==
    IF ~r1.ok
    THEN call_fail(c, Append(io2, IoRecord("really_read", "buffer2", 4, r1, received)),
                   r1.errs)
    ELSE call_reply_length(c,
             Append(io2, IoRecord("really_read", "buffer2", 4, r1, received)),
             r1.script,
             reply_body_length(xdr_int_decode(received), c.env.ubLen))

\* w2: the result of writing header+args.
call_write_body(c, io1, w2) ==
    IF ~w2.ok
    THEN call_fail(c, Append(io1, IoRecord("really_write", "buffer", c.len - 4, w2,
                                           <<>>)),
                   w2.errs)
    ELSE call_read_length(c,
             Append(io1, IoRecord("really_write", "buffer", c.len - 4, w2, <<>>)),
             really_read(c.uses_tls, c.chanOpen, c.in_open, 4, w2.script),
             xdr_int_encode(c.env.reply.lenword))

\* w1: the result of writing the length word.
call_write_length(c, w1) ==
    IF ~w1.ok
    THEN call_fail(c, <<IoRecord("really_write", "buffer2", 4, w1,
                                 xdr_int_encode(c.len))>>, w1.errs)
    ELSE call_write_body(c,
             <<IoRecord("really_write", "buffer2", 4, w1, xdr_int_encode(c.len))>>,
             really_write(c.uses_tls, c.chanOpen, c.in_open, c.len - 4, w1.script))

\* Serialise header followed by args, then send length word.
call_marshal(c) ==
    IF c.encoded > REMOTE_MESSAGE_MAX
    THEN call_rpc_error(c, <<>>, "marshalling args")
    ELSE call_write_length([c EXCEPT !.len = request_length(c.encoded)],
             really_write(c.uses_tls, c.chanOpen, c.in_open, 4, c.env.io))

call(p, chanOpen, in_open, proc_nr, argsLen, retVoid, env) ==
    call_marshal([uses_tls |-> p.uses_tls, chanOpen |-> chanOpen,
                  in_open |-> in_open, proc_nr |-> proc_nr, retVoid |-> retVoid,
                  env |-> env, serial |-> p.counter,
                  counter |-> counter_increment(p.counter, env.ub),
                  encoded |-> HEADER_LEN + argsLen, len |-> 0])

(***************************************************************************)
(* State                                                                   *)
(***************************************************************************)
VARIABLES
    conn,         \* the connection handle: privateData is <<>> (NULL) or <<priv>>
    openFds,      \* the descriptors this driver has created and not closed
    initialised,  \* initialise_gnutls's static flag
    serials,      \* the calls made on this connection, in order: serial and result
    earlier,      \* the serials assigned before the calls listed in serials
    nops,         \* driver operations invoked on the handle since remoteOpen
    op            \* what the last operation did

vars == <<conn, openFds, initialised, serials, earlier, nops, op>>

\* struct private_data as remoteOpen starts it: { .magic = DEAD, .sock = -1 }.
InitialPriv ==
    [magic |-> DEAD, sock |-> -1, uses_tls |-> FALSE, session |-> "NULL",
     type |-> "NULL", counter |-> 0]

NoReply ==
    [lenword |-> 0,
     hdr |-> [prog |-> "", vers |-> "", proc |-> "", direction |-> "",
              serial |-> 0, status |-> ""],
     retOk |-> FALSE, errOk |-> FALSE, rerror |-> ""]

\* The record of an operation that has made no call and touched nothing.
NoOp ==
    [name |-> "none", ret |-> "", errs |-> <<>>, calls |-> <<>>,
     closes |-> <<>>, bye |-> FALSE, before |-> <<>>, chanWasOpen |-> FALSE]

\* One call made by an operation: call()'s result with what it was asked and
\* what the server answered.
CallRecord(res, proc_nr, in_open, retVoid, reply) ==
    [ret |-> res.ret, serial |-> res.serial, errs |-> res.errs, io |-> res.io,
     ret_filter |-> res.ret_filter, encoded |-> res.encoded,
     proc |-> proc_nr, in_open |-> in_open,
     retVoid |-> retVoid, reply |-> reply]

Installed == conn.privateData # <<>>
Priv == conn.privateData[1]
ChanOpen(p) == p.sock \in openFds

\* socket(), socketpair(): the lowest descriptor not in use.
NewFd(fds) ==
    CHOOSE n \in 3..(3 + Cardinality(fds)) :
        n \notin fds /\ \A m \in 3..(n - 1) : m \in fds

(***************************************************************************)
(* remoteOpen: the URI                                                     *)
(*                                                                         *)
(* A URI is what xmlParseURI returns for uri_str: given (FALSE: uri_str is *)
(* NULL), parsed (FALSE: it does not parse), the scheme (<<>>: none), user *)
(* and server (<<>>: NULL, <<s>>: present), the port (0: none), the path   *)
(* and the query (<<>>: NULL).                                             *)
(***************************************************************************)
ToLower(c) ==
    CASE c = "T" -> "t" [] c = "L" -> "l" [] c = "S" -> "s" [] c = "C" -> "c"
      [] c = "P" -> "p" [] c = "U" -> "u" [] c = "N" -> "n" [] c = "I" -> "i"
      [] c = "X" -> "x" [] c = "H" -> "h" [] c = "E" -> "e" [] c = "A" -> "a"
      [] c = "M" -> "m" [] c = "O" -> "o" [] c = "D" -> "d" [] c = "K" -> "k"
      [] c = "V" -> "v" [] c = "R" -> "r" [] c = "F" -> "f" [] c = "Y" -> "y"
      [] OTHER -> c

\* strcasecmp (a, b) == 0
strcasecmp_eq(a, b) ==
    /\ Len(a) = Len(b)
    /\ \A i \in 1..Len(a) : ToLower(a[i]) = ToLower(b[i])

\* get_transport_from_scheme: <<>> when the scheme has no '+', else <<t>> with
\* t what follows the first '+'.
get_transport_from_scheme(scheme) ==
    IF \E i \in 1..Len(scheme) : scheme[i] = "+"
    THEN LET i == CHOOSE i \in 1..Len(scheme) :
                      scheme[i] = "+" /\ \A j \in 1..(i - 1) : scheme[j] # "+"
         IN  <<SubSeq(scheme, i + 1, Len(scheme))>>
    ELSE <<>>

\* A choice of transport that compares the characters as they are.
transport_of_case_sensitive(transport_str) ==
    IF transport_str = <<>> THEN "trans_tls"
    ELSE LET t == transport_str[1]
         IN  IF t = <<"t", "l", "s">> THEN "trans_tls"
             ELSE IF t = <<"u", "n", "i", "x">> THEN "trans_unix"
             ELSE IF t = <<"s", "s", "h">> THEN "trans_ssh"
             ELSE IF t = <<"e", "x", "t">> THEN "trans_ext"
             ELSE IF t = <<"t", "c", "p">> THEN "trans_tcp"
             ELSE ""

\* What transport?  "" when transport_str is not recognised.
transport_of(transport_str) ==
    IF transport_str = <<>> THEN "trans_tls"
    ELSE LET t == transport_str[1]
         IN  IF strcasecmp_eq(t, <<"t", "l", "s">>) THEN "trans_tls"
             ELSE IF strcasecmp_eq(t, <<"u", "n", "i", "x">>) THEN "trans_unix"
             ELSE IF strcasecmp_eq(t, <<"s", "s", "h">>) THEN "trans_ssh"
             ELSE IF strcasecmp_eq(t, <<"e", "x", "t">>) THEN "trans_ext"
             ELSE IF strcasecmp_eq(t, <<"t", "c", "p">>) THEN "trans_tcp"
             ELSE ""

(***************************************************************************)
(* The query string.  A string is the sequence of its characters; a        *)
(* pointer that may be NULL is <<>> (NULL) or <<s>>.  The characters of    *)
(* the model are letters, digits, marks and the ones of EscapedChars; a    *)
(* %XX escape of another character decodes to OtherChar.                   *)
(***************************************************************************)
Digits == <<"0", "1", "2", "3", "4", "5", "6", "7", "8", "9">>

IsDigit(c) == \E i \in DOMAIN Digits : Digits[i] = c

IsHex(c) ==
    IsDigit(c) \/ c \in {"A", "B", "C", "D", "E", "F", "a", "b", "c", "d", "e", "f"}

HexUpper(c) ==
    CASE c = "a" -> "A" [] c = "b" -> "B" [] c = "c" -> "C" [] c = "d" -> "D"
      [] c = "e" -> "E" [] c = "f" -> "F" [] OTHER -> c

\* The characters xmlURIEscapeStr escapes, with their codes.
EscapedChars ==
    [c \in {"=", "&", "%", "/", "+", "?", ":", "#", " "} |->
        CASE c = "=" -> <<"3", "D">> [] c = "&" -> <<"2", "6">>
          [] c = "%" -> <<"2", "5">> [] c = "/" -> <<"2", "F">>
          [] c = "+" -> <<"2", "B">> [] c = "?" -> <<"3", "F">>
          [] c = ":" -> <<"3", "A">> [] c = "#" -> <<"2", "3">>
          [] OTHER -> <<"2", "0">>]

OtherChar == "\\x"

CharOfCode(h1, h2) ==
    IF \E c \in DOMAIN EscapedChars :
           EscapedChars[c] = <<HexUpper(h1), HexUpper(h2)>>
    THEN CHOOSE c \in DOMAIN EscapedChars :
           EscapedChars[c] = <<HexUpper(h1), HexUpper(h2)>>
    ELSE OtherChar

\* xmlURIEscapeStr (str, ""): all but alphanumerics, marks and '@' escaped.
RECURSIVE xmlURIEscapeStr(_)
xmlURIEscapeStr(str) ==
    IF str = <<>> THEN <<>>
    ELSE (IF Head(str) \in DOMAIN EscapedChars
          THEN <<"%">> \o EscapedChars[Head(str)]
          ELSE <<Head(str)>>) \o xmlURIEscapeStr(Tail(str))

RECURSIVE unescape(_)
unescape(in) ==
    IF in = <<>> THEN <<>>
    ELSE IF Len(in) > 2 /\ in[1] = "%" /\ IsHex(in[2]) /\ IsHex(in[3])
    THEN <<CharOfCode(in[2], in[3])>> \o unescape(SubSeq(in, 4, Len(in)))
    ELSE <<Head(in)>> \o unescape(Tail(in))

\* xmlURIUnescapeString (str, len, NULL): str is the text from the pointer to
\* the end of the string; with len <= 0 the whole of it is taken.
xmlURIUnescapeString(str, len) ==
    unescape(SubSeq(str, 1, IF len <= 0 THEN Len(str) ELSE len))

\* Position of the first c in str, Len(str) + 1 when there is none.
FirstIndex(str, c) ==
    IF \E i \in 1..Len(str) : str[i] = c
    THEN CHOOSE i \in 1..Len(str) : str[i] = c /\ \A j \in 1..(i - 1) : str[j] # c
    ELSE Len(str) + 1

query_field(name, value) == [name |-> name, value |-> value, ignore |-> FALSE]

\* query_parse: while (*query).  query is the text not yet parsed; end and eq
\* are positions in it (the first character is at 1), eq = 0 for NULL.
RECURSIVE query_parse_loop(_, _)
query_parse_loop(query, fields) ==
    IF query = <<>> THEN fields
    ELSE LET end == FirstIndex(query, "&")
             eq == IF FirstIndex(query, "=") >= end THEN 0
                   ELSE FirstIndex(query, "=")
             rest == SubSeq(query, end + 1, Len(query))
         IN  IF end = 1
             THEN query_parse_loop(rest, fields)
             ELSE IF eq = 0
             THEN query_parse_loop(rest,
                      Append(fields,
                             query_field(xmlURIUnescapeString(query, end - 1),
                                         <<>>)))
             ELSE IF eq + 1 = end
             THEN query_parse_loop(rest,
                      Append(fields,
                             query_field(xmlURIUnescapeString(query, eq - 1),
                                         <<>>)))
             ELSE IF eq = 1
             THEN query_parse_loop(rest, fields)
             ELSE query_parse_loop(rest,
                      Append(fields,
                             query_field(xmlURIUnescapeString(query, eq - 1),
                                         xmlURIUnescapeString(
                                             SubSeq(query, eq + 1, Len(query)),
                                             end - (eq + 1)))))

\* query_parse (query, NULL, &vars): the fields, in order.
query_parse(query) ==
    IF query = <<>> \/ query[1] = <<>> THEN <<>>
    ELSE query_parse_loop(query[1], <<>>)

RECURSIVE query_create_loop(_, _, _)
query_create_loop(fields, buf, append_sep) ==
    IF fields = <<>> THEN buf
    ELSE IF Head(fields).ignore
    THEN query_create_loop(Tail(fields), buf, append_sep)
    ELSE query_create_loop(Tail(fields),
                           buf \o (IF append_sep THEN <<"&">> ELSE <<>>)
                               \o xmlURIEscapeStr(Head(fields).name) \o <<"=">>
                               \o xmlURIEscapeStr(Head(fields).value),
                           TRUE)

\* A query_create that does not escape.
query_create_verbatim(fields) ==
    IF fields = <<>> THEN <<>>
    ELSE <<LET Join[i \in 0..Len(fields)] ==
                   IF i = 0 THEN <<>>
                   ELSE IF fields[i].ignore THEN Join[i - 1]
                   ELSE Join[i - 1] \o (IF Join[i - 1] = <<>> THEN <<>> ELSE <<"&">>)
                            \o fields[i].name \o <<"=">> \o fields[i].value
           IN  Join[Len(fields)]>>

\* query_create (vars, NULL, &uri->query): NULL when there is no field.
query_create(fields) ==
    IF fields = <<>> THEN <<>>
    ELSE <<query_create_loop(fields, <<>>, FALSE)>>

(***************************************************************************)
(* initialise_gnutls: loads is how the allocation and the two loads end,   *)
(* the name of the first library call that fails or "loaded".  ran lists   *)
(* the library calls made.                                                 *)
(***************************************************************************)
GnutlsLoads ==
    <<"gnutls_certificate_allocate_credentials",
      "gnutls_certificate_set_x509_trust_file",
      "gnutls_certificate_set_x509_key_file">>

\* The library calls made when the first to fail is loads.
gnutls_ran(loads) ==
    <<"gnutls_global_init">>
    \o SubSeq(GnutlsLoads, 1,
              IF \E i \in 1..3 : GnutlsLoads[i] = loads
              THEN CHOOSE i \in 1..3 : GnutlsLoads[i] = loads
              ELSE 3)

\* An initialise_gnutls that sets its flag before it knows the outcome.
initialise_gnutls_flag_first(done, loads) ==
    IF done THEN [ret |-> 0, initialised |-> TRUE, errs |-> <<>>, ran |-> <<>>]
    ELSE IF loads # "loaded"
    THEN [ret |-> -1, initialised |-> TRUE,
          errs |-> <<RaisedError(FALSE, "VIR_ERR_GNUTLS_ERROR", loads)>>,
          ran |-> gnutls_ran(loads)]
    ELSE [ret |-> 0, initialised |-> TRUE, errs |-> <<>>,
          ran |-> gnutls_ran(loads)]

initialise_gnutls(done, loads) ==
    IF done THEN [ret |-> 0, initialised |-> TRUE, errs |-> <<>>, ran |-> <<>>]
    ELSE IF loads # "loaded"
    THEN [ret |-> -1, initialised |-> FALSE,
          errs |-> <<RaisedError(FALSE, "VIR_ERR_GNUTLS_ERROR", loads)>>,
          ran |-> gnutls_ran(loads)]
    ELSE [ret |-> 0, initialised |-> TRUE, errs |-> <<>>,
          ran |-> gnutls_ran(loads)]

(***************************************************************************)
(* remoteOpen: port, user name and the variables of the query string.      *)
(* LIBVIRTD_TLS_PORT, LIBVIRTD_TCP_PORT, LIBVIRTD_UNIX_SOCKET and          *)
(* LIBVIRTD_UNIX_SOCKET_RO are strings of one element, the macro's name.   *)
(***************************************************************************)
DigitValue(c) == (CHOOSE i \in DOMAIN Digits : Digits[i] = c) - 1

\* atoi: the decimal digits the string begins with.
RECURSIVE atoi_digits(_, _)
atoi_digits(str, n) ==
    IF str = <<>> \/ ~IsDigit(Head(str)) THEN n
    ELSE atoi_digits(Tail(str), 10 * n + DigitValue(Head(str)))

atoi(str) == atoi_digits(str, 0)

\* asprintf (&port, "%d", uri->port)
RECURSIVE asprintf_d(_)
asprintf_d(n) ==
    IF n < 10 THEN <<Digits[n + 1]>>
    ELSE Append(asprintf_d(n \div 10), Digits[(n % 10) + 1])

\* server = strdup (uri->server ? uri->server : "localhost")
open_server(u) ==
    IF u.server # <<>> THEN u.server[1]
    ELSE <<"l", "o", "c", "a", "l", "h", "o", "s", "t">>

\* A port that is taken from the URI for the tcp and tls transports only.
open_port_of_sockets(u, transport) ==
    IF u.port # 0 /\ transport \in {"trans_tls", "trans_tcp"}
    THEN <<asprintf_d(u.port)>>
    ELSE IF transport = "trans_tls" THEN <<(<<"LIBVIRTD_TLS_PORT">>)>>
    ELSE IF transport = "trans_tcp" THEN <<(<<"LIBVIRTD_TCP_PORT">>)>>
    ELSE IF transport = "trans_ssh" THEN <<(<<"2", "2">>)>>
    ELSE <<>>

\* The port, <<>> when it is not used.
open_port(u, transport) ==
    IF u.port # 0 THEN <<asprintf_d(u.port)>>
    ELSE IF transport = "trans_tls" THEN <<(<<"LIBVIRTD_TLS_PORT">>)>>
    ELSE IF transport = "trans_tcp" THEN <<(<<"LIBVIRTD_TCP_PORT">>)>>
    ELSE IF transport = "trans_ssh" THEN <<(<<"2", "2">>)>>
    ELSE <<>>

\* username is copied from uri->user in the branch that defaults the ssh port.
open_username(u, transport) ==
    IF u.port = 0 /\ transport = "trans_ssh" THEN u.user ELSE <<>>

NoVars ==
    [name |-> <<>>, command |-> <<>>, sockname |-> <<>>, netcat |-> <<>>,
     no_verify |-> 0, vars |-> <<>>]

\* One turn of for (var = vars; var; var = var->next).
extract_var(x, var) ==
    IF strcasecmp_eq(var.name, <<"n", "a", "m", "e">>)
    THEN [x EXCEPT !.name = <<var.value>>,
                   !.vars = Append(@, [var EXCEPT !.ignore = TRUE])]
    ELSE IF strcasecmp_eq(var.name, <<"c", "o", "m", "m", "a", "n", "d">>)
    THEN [x EXCEPT !.command = <<var.value>>,
                   !.vars = Append(@, [var EXCEPT !.ignore = TRUE])]
    ELSE IF strcasecmp_eq(var.name, <<"s", "o", "c", "k", "e", "t">>)
    THEN [x EXCEPT !.sockname = <<var.value>>,
                   !.vars = Append(@, [var EXCEPT !.ignore = TRUE])]
    ELSE IF strcasecmp_eq(var.name, <<"n", "e", "t", "c", "a", "t">>)
    THEN [x EXCEPT !.netcat = <<var.value>>,
                   !.vars = Append(@, [var EXCEPT !.ignore = TRUE])]
    ELSE IF strcasecmp_eq(var.name, <<"n", "o", "_", "v", "e", "r", "i", "f", "y">>)
    THEN [x EXCEPT !.no_verify = atoi(var.value),
                   !.vars = Append(@, [var EXCEPT !.ignore = TRUE])]
    ELSE [x EXCEPT !.vars = Append(@, var)]

RECURSIVE extract_vars(_, _)
extract_vars(var, x) ==
    IF var = <<>> THEN x
    ELSE extract_vars(Tail(var), extract_var(x, Head(var)))

\* xmlSaveUri: scheme, authority, path and query of the URI, put together.
xmlSaveUri(uri) ==
    uri.scheme \o <<":">>
    \o (IF uri.server # <<>>
        THEN <<"/", "/">>
             \o (IF uri.user # <<>> THEN uri.user[1] \o <<"@">> ELSE <<>>)
             \o uri.server[1]
             \o (IF uri.port > 0 THEN <<":">> \o asprintf_d(uri.port) ELSE <<>>)
        ELSE <<"/", "/">>)
    \o uri.path
    \o (IF uri.query # <<>> THEN <<"?">> \o uri.query[1] ELSE <<>>)

\* A name that keeps the server of the URI.
open_name_keeping_server(u, transport_str, x) ==
    IF x.name # <<>> THEN x.name[1]
    ELSE xmlSaveUri([u EXCEPT
             !.scheme = IF transport_str # <<>>
                        THEN SubSeq(u.scheme, 1,
                                    Len(u.scheme) - Len(transport_str[1]) - 1)
                        ELSE u.scheme,
             !.user = <<>>, !.port = 0,
             !.query = query_create(x.vars)])

\* Construct the original name.  The scheme is cut at the '+' that precedes
\* transport_str.
open_name(u, transport_str, x) ==
    IF x.name # <<>> THEN x.name[1]
    ELSE xmlSaveUri([u EXCEPT
             !.scheme = IF transport_str # <<>>
                        THEN SubSeq(u.scheme, 1,
                                    Len(u.scheme) - Len(transport_str[1]) - 1)
                        ELSE u.scheme,
             !.user = <<>>, !.server = <<>>, !.port = 0,
             !.query = query_create(x.vars)])

\* A path of REMOTE_MESSAGE_MAX characters is one element, LongRun.
LongRun == "x*"

RECURSIVE strlen(_)
strlen(str) ==
    IF str = <<>> THEN 0
    ELSE (IF Head(str) = LongRun THEN REMOTE_MESSAGE_MAX ELSE 1) + strlen(Tail(str))

\* case trans_ssh: the final command argv[] array.
ssh_argv(o) ==
    <<IF o.x.command # <<>> THEN o.x.command[1] ELSE <<"s", "s", "h">>,
      <<"-", "p">>, o.port[1]>>
    \o (IF o.username # <<>> THEN <<(<<"-", "l">>), o.username[1]>> ELSE <<>>)
    \o <<o.server,
         IF o.x.netcat # <<>> THEN o.x.netcat[1] ELSE <<"n", "c">>,
         <<"-", "U">>,
         IF o.x.sockname # <<>> THEN o.x.sockname[1]
         ELSE <<"LIBVIRTD_UNIX_SOCKET">>>>

(***************************************************************************)
(* verify_certificate and negotiate_gnutls_on_connection.  What the peer   *)
(* and the library do is in t: setup (the first of gnutls_init ... that    *)
(* fails, or "ok"), handshake and recv (what the successive calls of       *)
(* gnutls_handshake and gnutls_record_recv return) and cert: peers2 (the   *)
(* return of gnutls_certificate_verify_peers2), status (the flags it       *)
(* reports), time (what time() returns, -1 on failure), type, and chain    *)
(* (<<>>: no peers), whose certificates have import (whether init and      *)
(* import succeed), activation, expiration and hostname (whether           *)
(* gnutls_x509_crt_check_hostname matches).  The results: ret or session   *)
(* ("NULL": none) and the errors raised.                                   *)
(***************************************************************************)
\* A test that also rejects a certificate expiring at this very second.
certificate_expired_by_now(cert, now) == cert.expiration <= now

\* gnutls_x509_crt_get_expiration_time (cert) < now
certificate_expired(cert, now) == cert.expiration < now

\* for (i = 0 ; i < nCerts ; i++), from certificate i (the leaf is 1) on.
RECURSIVE verify_chain(_, _, _)
verify_chain(chain, i, now) ==
    IF i > Len(chain) THEN [ret |-> 0, errs |-> <<>>]
    ELSE IF ~chain[i].import
    THEN [ret |-> -1, errs |-> <<RaisedError(FALSE, "VIR_ERR_GNUTLS_ERROR",
                                             "gnutls_x509_crt_import")>>]
    ELSE IF certificate_expired(chain[i], now)
    THEN [ret |-> -1, errs |-> <<RaisedError(FALSE, "VIR_ERR_RPC",
                                             "The certificate has expired")>>]
    ELSE IF chain[i].activation > now
    THEN [ret |-> -1,
          errs |-> <<RaisedError(FALSE, "VIR_ERR_RPC",
                                 "The certificate is not yet activated")>>]
    ELSE IF i = 1 /\ ~chain[i].hostname
    THEN [ret |-> -1,
          errs |-> <<RaisedError(FALSE, "VIR_ERR_RPC",
                                 "Certificate's owner does not match the hostname")>>]
    ELSE verify_chain(chain, i + 1, now)

verify_certificate(c) ==
    IF c.peers2 < 0
    THEN [ret |-> -1, errs |-> <<RaisedError(FALSE, "VIR_ERR_GNUTLS_ERROR",
                                             "gnutls_certificate_verify_peers2")>>]
    ELSE IF c.time = -1
    THEN [ret |-> -1, errs |-> <<RaisedError(FALSE, "VIR_ERR_SYSTEM_ERROR", "time")>>]
    ELSE IF c.status # {}
    THEN [ret |-> -1, errs |-> <<RaisedError(FALSE, "VIR_ERR_RPC",
                                             "Invalid certificate")>>]
    ELSE IF c.type # "GNUTLS_CRT_X509"
    THEN [ret |-> -1, errs |-> <<RaisedError(FALSE, "VIR_ERR_RPC",
                                             "Certificate type is not X.509")>>]
    ELSE IF c.chain = <<>>
    THEN [ret |-> -1,
          errs |-> <<RaisedError(FALSE, "VIR_ERR_RPC",
                                 "gnutls_certificate_get_peers failed")>>]
    ELSE verify_chain(c.chain, 1, c.time)

\* len == GNUTLS_E_AGAIN || len == GNUTLS_E_INTERRUPTED
IsRetried(r) == r.len < 0 /\ r.err \in {"GNUTLS_E_AGAIN", "GNUTLS_E_INTERRUPTED"}

\* again: / again_2: the first return that is not retried.  The position
\* of it in the script; the script never ends while being retried.
RECURSIVE first_not_retried(_, _)
first_not_retried(script, i) ==
    IF i >= Len(script) \/ ~IsRetried(script[i]) THEN i
    ELSE first_not_retried(script, i + 1)

\* A bring-up that does not wait for the server's byte when no_verify is set.
negotiate_verified_trusting(no_verify, t, v) ==
    IF v.ret = -1 /\ no_verify = 0
    THEN [session |-> "NULL", errs |-> v.errs, reads |-> 0]
    ELSE IF no_verify # 0
    THEN [session |-> "session", errs |-> v.errs, reads |-> 0]
    ELSE LET n == first_not_retried(t.recv, 1)
             r == t.recv[n]
         IN  IF r.len # 1 \/ r.byte # 1
             THEN [session |-> "NULL",
                   errs |-> Append(v.errs, RaisedError(FALSE, "VIR_ERR_RPC",
                                                       "server verification")),
                   reads |-> n]
             ELSE [session |-> "session", errs |-> v.errs, reads |-> n]

\* After the handshake: v is the result of verify_certificate.  Then the
\* server's byte is awaited; reads counts the calls of gnutls_record_recv.
negotiate_verified(no_verify, t, v) ==
    IF v.ret = -1 /\ no_verify = 0
    THEN [session |-> "NULL", errs |-> v.errs, reads |-> 0]
    ELSE LET n == first_not_retried(t.recv, 1)
             r == t.recv[n]
         IN  IF r.len < 0 /\ r.err # "GNUTLS_E_UNEXPECTED_PACKET_LENGTH"
             THEN [session |-> "NULL",
                   errs |-> Append(v.errs, RaisedError(FALSE, "VIR_ERR_GNUTLS_ERROR",
                                                       "gnutls_record_recv")),
                   reads |-> n]
             ELSE IF r.len # 1 \/ r.byte # 1
             THEN [session |-> "NULL",
                   errs |-> Append(v.errs, RaisedError(FALSE, "VIR_ERR_RPC",
                                                       "server verification")),
                   reads |-> n]
             ELSE [session |-> "session", errs |-> v.errs, reads |-> n]

\* A bring-up that refuses every certificate that does not verify.
negotiate_gnutls_strict(no_verify, t) ==
    IF t.setup # "ok"
    THEN [session |-> "NULL", reads |-> 0,
          errs |-> <<RaisedError(FALSE, "VIR_ERR_GNUTLS_ERROR", t.setup)>>]
    ELSE IF t.handshake[first_not_retried(t.handshake, 1)].len < 0
    THEN [session |-> "NULL", reads |-> 0,
          errs |-> <<RaisedError(FALSE, "VIR_ERR_GNUTLS_ERROR", "handshake")>>]
    ELSE negotiate_verified(0, t, verify_certificate(t.cert))

negotiate_gnutls_on_connection(no_verify, t) ==
    IF t.setup # "ok"
    THEN [session |-> "NULL", reads |-> 0,
          errs |-> <<RaisedError(FALSE, "VIR_ERR_GNUTLS_ERROR", t.setup)>>]
    ELSE IF t.handshake[first_not_retried(t.handshake, 1)].len < 0
    THEN [session |-> "NULL", reads |-> 0,
          errs |-> <<RaisedError(FALSE, "VIR_ERR_GNUTLS_ERROR", "handshake")>>]
    ELSE negotiate_verified(no_verify, t, verify_certificate(t.cert))

\* What the library calls return: one byte, the end of the stream, an error.
Returned(len, err, byte) == [len |-> len, err |-> err, byte |-> byte]

\* A certificate that is valid now, and a peer that passes every check.
Cert(import, activation, expiration, hostname) ==
    [import |-> import, activation |-> activation, expiration |-> expiration,
     hostname |-> hostname]

GoodPeer ==
    [setup |-> "ok", handshake |-> <<Returned(0, "", 0)>>,
     cert |-> [peers2 |-> 0, status |-> {}, time |-> 2, type |-> "GNUTLS_CRT_X509",
               chain |-> <<Cert(TRUE, 1, 3, TRUE)>>],
     recv |-> <<Returned(1, "", 1)>>]

\* The peer at an address of the given outcome.
TlsPeer(a) ==
    CASE a = "handshake_fails" ->
           [GoodPeer EXCEPT !.handshake = <<Returned(-1, "GNUTLS_E_OTHER", 0)>>]
      [] a = "verify_fails" ->
           [GoodPeer EXCEPT !.cert.chain = <<Cert(TRUE, 1, 1, TRUE)>>]
      [] a = "ack_fails" -> [GoodPeer EXCEPT !.recv = <<Returned(1, "", 0)>>]
      [] OTHER -> GoodPeer

(***************************************************************************)
(* remoteOpen: the transports.  Each yields the socket left in priv.sock   *)
(* (-1: none), the session, whether a channel was connected, the open      *)
(* descriptors, the errors raised, the descriptors passed to close(), the  *)
(* addresses tried and the process spawned.                                *)
(***************************************************************************)
Attempt(i, a, fd) == [index |-> i, outcome |-> a, fd |-> fd]

NotConnected(sock, fds, errs, closes, attempts) ==
    [connected |-> FALSE, sock |-> sock, session |-> "NULL", fds |-> fds,
     errs |-> errs, closes |-> closes, attempts |-> attempts, spawned |-> <<>>]

Connected(sock, session, fds, errs, closes, attempts, spawned) ==
    [connected |-> TRUE, sock |-> sock, session |-> session, fds |-> fds,
     errs |-> errs, closes |-> closes, attempts |-> attempts,
     spawned |-> spawned]

\* A loop that gives up at the first address that fails.
tcp_loop_gives_up(addrs, uses_tls, no_verify, sock, fds, errs, closes, attempts) ==
    IF addrs = <<>> \/ Head(addrs) # "connected"
    THEN NotConnected(sock, fds, errs, closes, attempts)
    ELSE Connected(NewFd(fds), IF uses_tls THEN "session" ELSE "NULL",
                   fds \cup {NewFd(fds)}, errs, closes,
                   Append(attempts, Attempt(Len(attempts) + 1, Head(addrs),
                                            NewFd(fds))),
                   <<>>)

\* case trans_tcp: for (r = res; r; r = r->ai_next).  addrs gives, for each
\* address, how far the attempt gets.
RECURSIVE tcp_loop(_, _, _, _, _, _, _, _)
tcp_loop(addrs, uses_tls, no_verify, sock, fds, errs, closes, attempts) ==
    IF addrs = <<>>
    THEN NotConnected(sock, fds, errs, closes, attempts)
    ELSE LET a == Head(addrs)
             fd == NewFd(fds)
             g == negotiate_gnutls_on_connection(no_verify, TlsPeer(a))
         IN  IF a = "socket_fails"
             THEN tcp_loop(Tail(addrs), uses_tls, no_verify, -1, fds,
                           Append(errs, RaisedError(FALSE, "VIR_ERR_SYSTEM_ERROR",
                                                    "socket")),
                           closes, Append(attempts, Attempt(Len(attempts) + 1, a, -1)))
             ELSE IF a = "connect_fails"
             THEN \* close (priv.sock); continue;  priv.sock keeps its value
                  tcp_loop(Tail(addrs), uses_tls, no_verify, fd, fds,
                           Append(errs, RaisedError(FALSE, "VIR_ERR_SYSTEM_ERROR",
                                                    "connect")),
                           Append(closes, fd),
                           Append(attempts, Attempt(Len(attempts) + 1, a, fd)))
             ELSE IF uses_tls /\ g.session = "NULL"
             THEN \* close (priv.sock); priv.sock = -1; continue;
                  tcp_loop(Tail(addrs), uses_tls, no_verify, -1, fds,
                           errs \o g.errs, Append(closes, fd),
                           Append(attempts, Attempt(Len(attempts) + 1, a, fd)))
             ELSE Connected(fd, IF uses_tls THEN "session" ELSE "NULL",
                            fds \cup {fd},
                            IF uses_tls THEN errs \o g.errs ELSE errs, closes,
                            Append(attempts, Attempt(Len(attempts) + 1, a, fd)),
                            <<>>)

connect_tcp(uses_tls, o, fds) ==
    IF ~o.d.gai
    THEN NotConnected(-1, fds,
                      <<RaisedError(FALSE, "VIR_ERR_INVALID_ARG", "getaddrinfo")>>,
                      <<>>, <<>>)
    ELSE tcp_loop(o.d.addrs, uses_tls, o.x.no_verify, -1, fds, <<>>, <<>>, <<>>)

\* case trans_unix
connect_unix(o, fds) ==
    LET fd == NewFd(fds)
        e(what) == <<RaisedError(FALSE, "VIR_ERR_SYSTEM_ERROR", what)>>
        sockname == IF o.x.sockname # <<>> THEN o.x.sockname[1]
                    ELSE IF o.flags = "VIR_CONNECT_RO"
                    THEN <<"LIBVIRTD_UNIX_SOCKET_RO">>
                    ELSE <<"LIBVIRTD_UNIX_SOCKET">>
    IN  IF o.d.unix = "socket_fails"
        THEN NotConnected(-1, fds, e("socket"), <<>>, <<>>)
        ELSE IF o.d.unix = "connect_fails"
        THEN NotConnected(fd, fds \cup {fd}, e("connect"), <<>>,
                          <<Attempt(1, sockname, fd)>>)
        ELSE Connected(fd, "NULL", fds \cup {fd}, <<>>, <<>>,
                       <<Attempt(1, sockname, fd)>>, <<>>)

\* case trans_ssh (falls through) and case trans_ext: socketpair, fork, and
\* in the child execvp (command, cmd_argv).
connect_ext(o, fds) ==
    LET sv0 == NewFd(fds)
        sv1 == NewFd(fds \cup {sv0})
        e(what) == <<RaisedError(FALSE, "VIR_ERR_SYSTEM_ERROR", what)>>
    IN  IF o.d.spawn = "socketpair_fails"
        THEN NotConnected(-1, fds, e("socketpair"), <<>>, <<>>)
        ELSE IF o.d.spawn = "fork_fails"
        THEN \* goto failed with priv.sock still -1
             NotConnected(-1, fds \cup {sv0, sv1}, e("fork"), <<>>, <<>>)
        ELSE \* parent: close (sv[1]); priv.sock = sv[0];
             Connected(sv0, "NULL", fds \cup {sv0}, <<>>, <<sv1>>, <<>>,
                       <<IF o.transport = "trans_ssh" THEN ssh_argv(o)
                         ELSE <<o.x.command[1]>>>>)

connect_transport(transport, uses_tls, o, fds) ==
    IF transport \in {"trans_tls", "trans_tcp"} THEN connect_tcp(uses_tls, o, fds)
    ELSE IF transport = "trans_unix" THEN connect_unix(o, fds)
    ELSE connect_ext(o, fds)

(***************************************************************************)
(* remoteOpen.  u is the URI that uri_str parses to and flags the flags;   *)
(* d is what the environment does while dialling (how initialise_gnutls's  *)
(* loads, getaddrinfo, each address, the Unix socket, socketpair/fork and  *)
(* the final malloc end); env is the environment of the open call.  The    *)
(* result: the return code, the handle's privateData, the open             *)
(* descriptors, initialise_gnutls's flag and what was done.                *)
(***************************************************************************)
\* Encoded size of remote_open_args { &name, flags }: the optional string's
\* discriminant and length words, its bytes padded to 4, and the flags.
open_args_length(nameLen) == 12 + ((nameLen + 3) \div 4) * 4

\* failed: close the socket if we failed.
open_failed_cleanup(priv, fds, closes) ==
    IF priv.sock >= 0
    THEN [bye |-> priv.uses_tls /\ priv.session # "NULL",
          closes |-> Append(closes, priv.sock), fds |-> fds \ {priv.sock}]
    ELSE [bye |-> FALSE, closes |-> closes, fds |-> fds]

\* What remoteOpen did besides raising errors, calling and closing: the
\* transport chosen, the variables of the query, the name constructed, the
\* addresses tried and the process spawned.
NothingDone ==
    [transport |-> "", x |-> NoVars, name |-> <<>>, attempts |-> <<>>,
     spawned |-> <<>>, gnutls |-> <<>>]

Did(o, t) ==
    [transport |-> o.transport, x |-> o.x, name |-> o.name,
     attempts |-> t.attempts, spawned |-> t.spawned, gnutls |-> o.gnutls]

NotDialled == NotConnected(-1, {}, <<>>, <<>>, <<>>)

OpenResult(code, privateData, fds, done, errs, calls, closes, bye, did) ==
    [ret |-> code, privateData |-> privateData, fds |-> fds,
     initialised |-> done, errs |-> errs, calls |-> calls, closes |-> closes,
     bye |-> bye, did |-> did]

\* goto failed, with the cleanup's outcome c
open_failed(c, done, errs, calls, did) ==
    OpenResult(VIR_DRV_OPEN_ERROR, <<>>, c.fds, done, errs, calls, c.closes, c.bye,
               did)

\* An open that installs the private data whatever the open call returned.
open_called_installs_anyway(o, priv, t, done, c, rec) ==
    OpenResult(VIR_DRV_OPEN_SUCCESS,
               <<[priv EXCEPT !.magic = MAGIC, !.counter = c.counter]>>,
               t.fds, done, t.errs, rec, t.closes, FALSE, Did(o, t))

\* c: the result of the open call.  Then the private data is allocated.
open_called(o, priv, t, done, c, rec) ==
    IF c.ret = -1
    THEN open_failed(open_failed_cleanup(priv, t.fds, t.closes), done,
                     t.errs \o c.errs, rec, Did(o, t))
    ELSE IF ~o.d.malloc
    THEN open_failed(open_failed_cleanup(priv, t.fds, t.closes), done,
                     Append(t.errs, RaisedError(FALSE, "VIR_ERR_NO_MEMORY", "malloc")),
                     rec, Did(o, t))
    ELSE OpenResult(VIR_DRV_OPEN_SUCCESS,
                    <<[priv EXCEPT !.magic = MAGIC, !.counter = c.counter]>>,
                    t.fds, done, t.errs, rec, t.closes, FALSE, Did(o, t))

open_call(o, priv, t, done, c) ==
    open_called(o, [priv EXCEPT !.counter = c.counter], t, done, c,
                <<CallRecord(c, "REMOTE_PROC_OPEN", TRUE, TRUE, o.env.reply)>>)

\* t: the result of the switch (transport).  Then the remote side's open.
open_connected(o, priv, t, done) ==
    IF ~t.connected
    THEN open_failed(open_failed_cleanup(priv, t.fds, t.closes), done, t.errs, <<>>,
                     Did(o, t))
    ELSE open_call(o, priv, t, done,
                   call(priv, t.sock \in t.fds, TRUE, "REMOTE_PROC_OPEN",
                        open_args_length(strlen(o.name[1])), TRUE, o.env))

\* An open that marks every connection as one that uses TLS.
open_dial_marking_tls(o, uses_tls, t, done) ==
    open_connected(o,
                   [InitialPriv EXCEPT !.uses_tls = TRUE, !.sock = t.sock,
                                       !.session = t.session],
                   t, done)

\* priv as the switch (transport) leaves it.
open_dial(o, uses_tls, t, done) ==
    open_connected(o,
                   [InitialPriv EXCEPT !.uses_tls = uses_tls, !.sock = t.sock,
                                       !.session = t.session],
                   t, done)

\* g: the result of initialise_gnutls (case trans_tls only).
open_transport(o, g, fds) ==
    IF g.ret = -1
    THEN open_failed(open_failed_cleanup(InitialPriv, fds, <<>>), g.initialised,
                     g.errs, <<>>, Did([o EXCEPT !.gnutls = g.ran], NotDialled))
    ELSE open_dial([o EXCEPT !.gnutls = g.ran], o.transport = "trans_tls",
                   connect_transport(o.transport, o.transport = "trans_tls", o, fds),
                   g.initialised)

\* An open that looks for the command only once the socket pair is made.
open_named_after_socketpair(o, fds, done) ==
    IF o.transport = "trans_ext" /\ o.x.command = <<>>
    THEN open_failed(open_failed_cleanup(InitialPriv,
                                         fds \cup {NewFd(fds),
                                                   NewFd(fds \cup {NewFd(fds)})},
                                         <<>>),
                     done,
                     <<RaisedError(FALSE, "VIR_ERR_INVALID_ARG",
                                   "command is required")>>, <<>>,
                     [Did(o, NotDialled) EXCEPT !.name = <<>>])
    ELSE open_transport(o,
                        IF o.transport = "trans_tls"
                        THEN initialise_gnutls(done, o.d.loads)
                        ELSE [ret |-> 0, initialised |-> done, errs |-> <<>>,
                              ran |-> <<>>],
                        fds)

\* o: what is fixed once the query's variables are known.
open_named(o, fds, done) ==
    IF o.transport = "trans_ext" /\ o.x.command = <<>>
    THEN open_failed(open_failed_cleanup(InitialPriv, fds, <<>>), done,
                     <<RaisedError(FALSE, "VIR_ERR_INVALID_ARG",
                                   "command is required")>>, <<>>,
                     [Did(o, NotDialled) EXCEPT !.name = <<>>])
    ELSE open_transport(o,
                        IF o.transport = "trans_tls"
                        THEN initialise_gnutls(done, o.d.loads)
                        ELSE [ret |-> 0, initialised |-> done, errs |-> <<>>,
                              ran |-> <<>>],
                        fds)

\* x: the variables of the query string.
open_vars(transport_str, transport, u, flags, d, env, fds, done, x) ==
    open_named([u |-> u, flags |-> flags, d |-> d, env |-> env,
                transport |-> transport, server |-> open_server(u),
                port |-> open_port(u, transport),
                username |-> open_username(u, transport), x |-> x,
                gnutls |-> <<>>,
                name |-> <<open_name(u, transport_str, x)>>],
               fds, done)

\* A remoteOpen that declines every URI without a server.
open_parsed_needing_server(transport_str, transport, u, flags, d, env, fds, done) ==
    IF u.server = <<>>
    THEN OpenResult(VIR_DRV_OPEN_DECLINED, <<>>, fds, done, <<>>, <<>>, <<>>, FALSE,
                    NothingDone)
    ELSE IF transport = ""
    THEN OpenResult(VIR_DRV_OPEN_ERROR, <<>>, fds, done,
                    <<RaisedError(FALSE, "VIR_ERR_INVALID_ARG",
                                  "transport in URL not recognised")>>,
                    <<>>, <<>>, FALSE, NothingDone)
    ELSE open_vars(transport_str, transport, u, flags, d, env, fds, done,
                   extract_vars(query_parse(u.query), NoVars))

\* if (!uri->server && !transport_str) decline; then the transport, then
\* the variables of the query string.
open_parsed(transport_str, transport, u, flags, d, env, fds, done) ==
    IF u.server = <<>> /\ transport_str = <<>>
    THEN OpenResult(VIR_DRV_OPEN_DECLINED, <<>>, fds, done, <<>>, <<>>, <<>>, FALSE,
                    NothingDone)
    ELSE IF transport = ""
    THEN OpenResult(VIR_DRV_OPEN_ERROR, <<>>, fds, done,
                    <<RaisedError(FALSE, "VIR_ERR_INVALID_ARG",
                                  "transport in URL not recognised")>>,
                    <<>>, <<>>, FALSE, NothingDone)
    ELSE open_vars(transport_str, transport, u, flags, d, env, fds, done,
                   extract_vars(query_parse(u.query), NoVars))

remoteOpen(u, flags, d, env, fds, done) ==
    IF ~u.given \/ ~u.parsed \/ u.scheme = <<>>
    THEN OpenResult(VIR_DRV_OPEN_DECLINED, <<>>, fds, done, <<>>, <<>>, <<>>, FALSE,
                    NothingDone)
    ELSE open_parsed(get_transport_from_scheme(u.scheme),
                     transport_of(get_transport_from_scheme(u.scheme)),
                     u, flags, d, env, fds, done)

(***************************************************************************)
(* The driver operations on an installed handle.  Each result holds the    *)
(* return value, the private data afterwards, the open descriptors and     *)
(* what was done.                                                          *)
(***************************************************************************)
\* GET_PRIVATE: whether the operation returns its retcode at once.
GET_PRIVATE_returns(priv) == priv.magic = DEAD

OpResult(ret, priv, fds, errs, calls, closes, bye) ==
    [ret |-> ret, priv |-> priv, fds |-> fds, errs |-> errs, calls |-> calls,
     closes |-> closes, bye |-> bye]

ClosedHandle(priv, fds, retcode) ==
    OpResult(retcode, priv, fds,
             <<RaisedError(TRUE, "VIR_ERR_INVALID_ARG",
                           "tried to use a closed or uninitialised handle")>>,
             <<>>, <<>>, FALSE)

\* A remoteClose that tears the connection down whatever the call returned.
close_called_tearing_down(priv, fds, c, rec) ==
    OpResult(IF c.ret = -1 THEN "-1" ELSE "0",
             [priv EXCEPT !.counter = c.counter,
                          !.type = IF priv.type # "NULL" THEN "freed"
                                   ELSE "NULL"],
             fds \ {priv.sock}, c.errs, rec, <<priv.sock>>,
             priv.uses_tls /\ priv.session # "NULL")

\* c: the result of the close call.
close_called(priv, fds, c, rec) ==
    IF c.ret = -1
    THEN OpResult("-1", [priv EXCEPT !.counter = c.counter], fds, c.errs, rec,
                  <<>>, FALSE)
    ELSE \* gnutls_bye; close (priv->sock); free (priv->type)
         OpResult("0",
                  [priv EXCEPT !.counter = c.counter,
                               !.type = IF priv.type # "NULL" THEN "freed"
                                        ELSE "NULL"],
                  fds \ {priv.sock}, <<>>, rec, <<priv.sock>>,
                  priv.uses_tls /\ priv.session # "NULL")

close_call(priv, fds, env, c) ==
    close_called(priv, fds, c,
                 <<CallRecord(c, "REMOTE_PROC_CLOSE", FALSE, TRUE, env.reply)>>)

remoteClose(priv, fds, env) ==
    IF GET_PRIVATE_returns(priv) THEN ClosedHandle(priv, fds, "-1")
    ELSE close_call(priv, fds, env,
                    call(priv, priv.sock \in fds, FALSE, "REMOTE_PROC_CLOSE", 0,
                         TRUE, env))

\* c: the result of the get-type call.
type_called(priv, fds, c, rec) ==
    IF c.ret = -1
    THEN OpResult("NULL", [priv EXCEPT !.counter = c.counter], fds, c.errs, rec,
                  <<>>, FALSE)
    ELSE \* Stash.
         OpResult("type", [priv EXCEPT !.counter = c.counter, !.type = "type"],
                  fds, <<>>, rec, <<>>, FALSE)

type_call(priv, fds, env, c) ==
    type_called(priv, fds, c,
                <<CallRecord(c, "REMOTE_PROC_GET_TYPE", FALSE, FALSE, env.reply)>>)

\* A remoteType that asks the server every time.
remoteType_asking_again(priv, fds, env) ==
    IF GET_PRIVATE_returns(priv) THEN ClosedHandle(priv, fds, "NULL")
    ELSE type_call(priv, fds, env,
                   call(priv, priv.sock \in fds, FALSE, "REMOTE_PROC_GET_TYPE", 0,
                        FALSE, env))

remoteType(priv, fds, env) ==
    IF GET_PRIVATE_returns(priv) THEN ClosedHandle(priv, fds, "NULL")
    ELSE IF priv.type # "NULL"
    THEN \* Cached?  (the pointer is returned as it is, also after free)
         OpResult(priv.type, priv, fds, <<>>, <<>>, <<>>, FALSE)
    ELSE type_call(priv, fds, env,
                   call(priv, priv.sock \in fds, FALSE, "REMOTE_PROC_GET_TYPE", 0,
                        FALSE, env))

version_call(priv, fds, env, c) ==
    OpResult(IF c.ret = -1 THEN "-1" ELSE "0", [priv EXCEPT !.counter = c.counter],
             fds, c.errs,
             <<CallRecord(c, "REMOTE_PROC_GET_VERSION", FALSE, FALSE, env.reply)>>,
             <<>>, FALSE)

remoteVersion(priv, fds, env) ==
    IF GET_PRIVATE_returns(priv) THEN ClosedHandle(priv, fds, "-1")
    ELSE version_call(priv, fds, env,
                      call(priv, priv.sock \in fds, FALSE,
                           "REMOTE_PROC_GET_VERSION", 0, FALSE, env))

(***************************************************************************)
(* Stubs that take or return arrays.  priv, fds: the connection; env.call: *)
(* what the environment does during the call; env.len, env.len2: the      *)
(* lengths of the arrays of the decoded reply.  A result tells, besides    *)
(* what an OpResult tells, how many elements were written to the caller's  *)
(* buffer (copied), whether the decoded reply was released with xdr_free   *)
(* (freed), and the value left in *nparams.                                *)
(***************************************************************************)
\* The protocol's ceilings (remote_protocol.h), scaled to the arrays of the
\* model; maplen of MaxElems and maxinfo of MaxElems are each allowed while
\* their product is not.
REMOTE_DOMAIN_ID_LIST_MAX == MaxElems
REMOTE_DOMAIN_NAME_LIST_MAX == MaxElems
REMOTE_NETWORK_NAME_LIST_MAX == MaxElems
REMOTE_CPUMAP_MAX == MaxElems
REMOTE_VCPUINFO_MAX == MaxElems
REMOTE_CPUMAPS_MAX == MaxElems + 1
REMOTE_DOMAIN_SCHEDULER_PARAMETERS_MAX == MaxElems

StubResult(ret, priv, fds, errs, calls, copied, freed, nparams) ==
    [ret |-> ret, priv |-> priv, fds |-> fds, errs |-> errs, calls |-> calls,
     copied |-> copied, freed |-> freed, nparams |-> nparams]

\* GET_PRIVATE (conn, -1) on a handle whose magic is DEAD.
stub_closed(priv, fds, n) ==
    StubResult(-1, priv, fds, ClosedHandle(priv, fds, "-1").errs, <<>>, 0,
               FALSE, n)

\* error (conn, VIR_ERR_RPC, info); return -1;
stub_error(priv, fds, calls, info, freed, n) ==
    StubResult(-1, priv, fds, <<RaisedError(TRUE, "VIR_ERR_RPC", info)>>, calls,
               0, freed, n)

\* if (call (...) == -1) return -1;
stub_call_failed(priv, fds, c, rec, n) ==
    StubResult(-1, [priv EXCEPT !.counter = c.counter], fds, c.errs, rec, 0,
               FALSE, n)

\* A list stub that copies whatever the reply holds.
list_called_unchecked(priv, fds, c, rec, len, max, info) ==
    IF c.ret = -1 THEN stub_call_failed(priv, fds, c, rec, max)
    ELSE StubResult(len, [priv EXCEPT !.counter = c.counter], fds, <<>>, rec,
                    len, TRUE, max)

\* After the call of a list stub: the check of the reply's length against
\* the caller's bound, the copy loop, xdr_free, return ret.<array>_len.
list_called(priv, fds, c, rec, len, max, info) ==
    IF c.ret = -1 THEN stub_call_failed(priv, fds, c, rec, max)
    ELSE IF len > max
    THEN stub_error([priv EXCEPT !.counter = c.counter], fds, rec, info, TRUE,
                    max)
    ELSE StubResult(len, [priv EXCEPT !.counter = c.counter], fds, <<>>, rec,
                    len, TRUE, max)

list_call(priv, fds, env, proc_nr, c, max, info) ==
    list_called(priv, fds, c,
                <<CallRecord(c, proc_nr, FALSE, FALSE, env.call.reply)>>,
                env.len, max, info)

\* The shape the four list stubs share: GET_PRIVATE, the check of the
\* caller's bound against the protocol's ceiling, the call, the reply.
list_stub(priv, fds, env, proc_nr, max, ceiling, over, info) ==
    IF GET_PRIVATE_returns(priv) THEN stub_closed(priv, fds, max)
    ELSE IF max > ceiling THEN stub_error(priv, fds, <<>>, over, FALSE, max)
    ELSE list_call(priv, fds, env, proc_nr,
                   call(priv, priv.sock \in fds, FALSE, proc_nr, 4, FALSE,
                        env.call),
                   max, info)

remoteListDomains(priv, fds, env, maxids) ==
    list_stub(priv, fds, env, "REMOTE_PROC_LIST_DOMAINS", maxids,
              REMOTE_DOMAIN_ID_LIST_MAX, "maxids > REMOTE_DOMAIN_ID_LIST_MAX",
              "ret.ids.ids_len > maxids")

remoteListDefinedDomains(priv, fds, env, maxnames) ==
    list_stub(priv, fds, env, "REMOTE_PROC_LIST_DEFINED_DOMAINS", maxnames,
              REMOTE_DOMAIN_NAME_LIST_MAX,
              "maxnames > REMOTE_DOMAIN_NAME_LIST_MAX",
              "ret.names.names_len > maxnames")

remoteListNetworks(priv, fds, env, maxnames) ==
    list_stub(priv, fds, env, "REMOTE_PROC_LIST_NETWORKS", maxnames,
              REMOTE_NETWORK_NAME_LIST_MAX,
              "maxnames > REMOTE_NETWORK_NAME_LIST_MAX",
              "ret.names.names_len > maxnames")

remoteListDefinedNetworks(priv, fds, env, maxnames) ==
    list_stub(priv, fds, env, "REMOTE_PROC_LIST_DEFINED_NETWORKS", maxnames,
              REMOTE_NETWORK_NAME_LIST_MAX,
              "maxnames > REMOTE_NETWORK_NAME_LIST_MAX",
              "ret.names.names_len > maxnames")

\* A stub whose reply is void: return -1 or 0.
void_called(priv, fds, c, rec, n) ==
    IF c.ret = -1 THEN stub_call_failed(priv, fds, c, rec, n)
    ELSE StubResult(0, [priv EXCEPT !.counter = c.counter], fds, <<>>, rec, 0,
                    FALSE, n)

void_call(priv, fds, env, proc_nr, c, n) ==
    void_called(priv, fds, c,
                <<CallRecord(c, proc_nr, FALSE, TRUE, env.call.reply)>>, n)

\* args: the domain (elided), vcpu, and cpumap as a counted array of bytes.
remoteDomainPinVcpu(priv, fds, env, maplen) ==
    IF GET_PRIVATE_returns(priv) THEN stub_closed(priv, fds, maplen)
    ELSE IF maplen > REMOTE_CPUMAP_MAX
    THEN stub_error(priv, fds, <<>>, "maplen > REMOTE_CPUMAP_MAX", FALSE, maplen)
    ELSE void_call(priv, fds, env, "REMOTE_PROC_DOMAIN_PIN_VCPU",
                   call(priv, priv.sock \in fds, FALSE,
                        "REMOTE_PROC_DOMAIN_PIN_VCPU",
                        12 + ((maplen + 3) \div 4) * 4, TRUE, env.call),
                   maplen)

\* After the call of remoteDomainGetVcpus: info_len and cpumaps_len are
\* checked, info_len elements and cpumaps_len bytes copied, info_len returned.
\* product: the value of maxinfo * maplen.
vcpus_called(priv, fds, env, c, rec, maxinfo, product) ==
    IF c.ret = -1 THEN stub_call_failed(priv, fds, c, rec, maxinfo)
    ELSE IF env.len > maxinfo
    THEN stub_error([priv EXCEPT !.counter = c.counter], fds, rec,
                    "ret.info.info_len > maxinfo", TRUE, maxinfo)
    ELSE IF env.len2 > product
    THEN stub_error([priv EXCEPT !.counter = c.counter], fds, rec,
                    "ret.cpumaps.cpumaps_len > maxinfo * maplen", TRUE, maxinfo)
    ELSE StubResult(env.len, [priv EXCEPT !.counter = c.counter], fds, <<>>,
                    rec, env.len, TRUE, maxinfo)

vcpus_call(priv, fds, env, c, maxinfo, product) ==
    vcpus_called(priv, fds, env, c,
                 <<CallRecord(c, "REMOTE_PROC_DOMAIN_GET_VCPUS", FALSE, FALSE,
                              env.call.reply)>>,
                 maxinfo, product)

\* The bytes of an int, lowest first, in two's complement.
int_bytes(a) ==
    [i \in 1..4 |->
        IF a >= 0 THEN (a \div (256 ^ (i - 1))) % 256
        ELSE 255 - (((-(a + 1)) \div (256 ^ (i - 1))) % 256)]

\* Sum of the byte products x[i] * y[j] that land on byte k of the product.
RECURSIVE column(_, _, _, _)
column(x, y, k, i) ==
    IF i > k THEN 0 ELSE x[i] * y[k - i + 1] + column(x, y, k, i + 1)

\* The four low bytes of the product of x and y, lowest first: byte k is
\* column k plus the carry of the bytes below it.
RECURSIVE product_bytes(_, _, _, _)
product_bytes(x, y, k, carry) ==
    IF k > 4 THEN <<>>
    ELSE <<(column(x, y, k, 1) + carry) % 256>>
         \o product_bytes(x, y, k + 1, (column(x, y, k, 1) + carry) \div 256)

\* The int whose bytes in two's complement are bs.
int_of_bytes(bs) ==
    (IF bs[4] >= 128 THEN bs[4] - 256 ELSE bs[4]) * 16777216
    + bs[3] * 65536 + bs[2] * 256 + bs[1]

\* a * b kept to 32 bits.
wrapped_product(a, b) ==
    int_of_bytes(product_bytes(int_bytes(a), int_bytes(b), 1, 0))

\* Whether a * b is outside the range of int.  The magnitudes are compared
\* by division, their product having no place in an int: p and q are the
\* magnitudes less one.
product_overflows(a, b) ==
    LET p == IF a < 0 THEN -(a + 1) ELSE a - 1
        q == IF b < 0 THEN -(b + 1) ELSE b - 1
    IN  IF a = 0 \/ b = 0 THEN FALSE
        ELSE IF (a < 0) = (b < 0)
        THEN \* the product is positive: beyond INT_MAX
             ~(q < INT_MAX /\ p <= (INT_MAX \div (q + 1)) - 1)
        ELSE \* the product is negative: below INT_MIN
             IF q = 0 THEN FALSE
             ELSE IF q = INT_MAX THEN p # 0
             ELSE ~(p <= (INT_MAX \div (q + 1))
                         + (IF INT_MAX % (q + 1) = q THEN 1 ELSE 0) - 1)

\* maxinfo * maplen: the product, or when it overflows (undefined) ub.
int_product(a, b, ub) ==
    IF product_overflows(a, b) THEN ub ELSE wrapped_product(a, b)

\* ub: what maxinfo * maplen yields when it overflows.
remoteDomainGetVcpus(priv, fds, env, maxinfo, maplen, ub) ==
    IF GET_PRIVATE_returns(priv) THEN stub_closed(priv, fds, maxinfo)
    ELSE IF maxinfo > REMOTE_VCPUINFO_MAX
    THEN stub_error(priv, fds, <<>>, "maxinfo > REMOTE_VCPUINFO_MAX", FALSE,
                    maxinfo)
    ELSE IF int_product(maxinfo, maplen, ub) > REMOTE_CPUMAPS_MAX
    THEN stub_error(priv, fds, <<>>, "maxinfo * maplen > REMOTE_CPUMAPS_MAX",
                    FALSE, maxinfo)
    ELSE vcpus_call(priv, fds, env,
                    call(priv, priv.sock \in fds, FALSE,
                         "REMOTE_PROC_DOMAIN_GET_VCPUS", 8, FALSE, env.call),
                    maxinfo, int_product(maxinfo, maplen, ub))

\* After the call of remoteDomainGetSchedulerParameters: params_len is
\* checked against the ceiling and *nparams, stored in *nparams, and the
\* elements are copied up to the first whose type is unknown (env.unknown,
\* 0 if there is none); that one has its field and type written already.
sched_called(priv, fds, env, c, rec, nparams) ==
    IF c.ret = -1 THEN stub_call_failed(priv, fds, c, rec, nparams)
    ELSE IF env.len > REMOTE_DOMAIN_SCHEDULER_PARAMETERS_MAX \/ env.len > nparams
    THEN stub_error([priv EXCEPT !.counter = c.counter], fds, rec,
                    "remoteDomainGetSchedulerParameters: returned number of parameters exceeds limit",
                    TRUE, nparams)
    ELSE IF env.unknown \in 1..env.len
    THEN [stub_error([priv EXCEPT !.counter = c.counter], fds, rec,
                     "remoteDomainGetSchedulerParameters: unknown parameter type",
                     TRUE, env.len) EXCEPT !.copied = env.unknown]
    ELSE StubResult(0, [priv EXCEPT !.counter = c.counter], fds, <<>>, rec,
                    env.len, TRUE, env.len)

sched_call(priv, fds, env, c, nparams) ==
    sched_called(priv, fds, env, c,
                 <<CallRecord(c, "REMOTE_PROC_DOMAIN_GET_SCHEDULER_PARAMETERS",
                              FALSE, FALSE, env.call.reply)>>,
                 nparams)

\* args.nparams = *nparams; and the call, whatever *nparams is.
remoteDomainGetSchedulerParameters(priv, fds, env, nparams) ==
    IF GET_PRIVATE_returns(priv) THEN stub_closed(priv, fds, nparams)
    ELSE sched_call(priv, fds, env,
                    call(priv, priv.sock \in fds, FALSE,
                         "REMOTE_PROC_DOMAIN_GET_SCHEDULER_PARAMETERS", 4, FALSE,
                         env.call),
                    nparams)

\* The parameters are serialised into an array of nparams elements (env.oom:
\* malloc returns NULL; env.unknown: the first parameter whose type is
\* unknown, 0 if there is none), then the call.  The array is bounded by the
\* args filter alone, which call() runs before it writes: env.filtered tells
\* whether the filter refuses the array, and a refused array is handed to
\* call() as one that does not fit the buffer.
remoteDomainSetSchedulerParameters(priv, fds, env, nparams) ==
    IF GET_PRIVATE_returns(priv) THEN stub_closed(priv, fds, nparams)
    ELSE IF env.oom
    THEN stub_error(priv, fds, <<>>, "out of memory allocating array", FALSE,
                    nparams)
    ELSE IF env.unknown \in 1..nparams
    THEN stub_error(priv, fds, <<>>, "unknown parameter type", FALSE, nparams)
    ELSE void_call(priv, fds, env,
                   "REMOTE_PROC_DOMAIN_SET_SCHEDULER_PARAMETERS",
                   call(priv, priv.sock \in fds, FALSE,
                        "REMOTE_PROC_DOMAIN_SET_SCHEDULER_PARAMETERS",
                        IF env.filtered THEN REMOTE_MESSAGE_MAX
                        ELSE 4 + 16 * nparams,
                        TRUE, env.call),
                   nparams)

(***************************************************************************)
(* The environment of one call                                             *)
(***************************************************************************)
\* What an overflowing priv->counter++ may leave in the counter, and what an
\* overflowing len -= 4 may leave in len: the wrapped value, or another value
\* of the type.
CounterOverflowResults == {INT_MIN, 0}
LenOverflowResults(lenword) == {INT_MAX - 3 + (lenword - INT_MIN), INT_MIN}

GoodHeader(proc_nr, serial) ==
    [prog |-> REMOTE_PROGRAM, vers |-> REMOTE_PROTOCOL_VERSION, proc |-> proc_nr,
     direction |-> REMOTE_REPLY, serial |-> serial, status |-> REMOTE_OK]

OtherProc(proc_nr) ==
    IF proc_nr = "REMOTE_PROC_OPEN" THEN "REMOTE_PROC_CLOSE" ELSE "REMOTE_PROC_OPEN"

OtherSerial(serial) == IF serial = INT_MAX THEN serial - 1 ELSE serial + 1

\* The expected header, the headers that differ from it in one field, and
\* one that differs in all.
Headers(proc_nr, serial) ==
    LET g == GoodHeader(proc_nr, serial)
    IN  {g,
         [g EXCEPT !.prog = "OTHER_PROGRAM"],
         [g EXCEPT !.vers = "OTHER_VERSION"],
         [g EXCEPT !.proc = OtherProc(proc_nr)],
         [g EXCEPT !.direction = REMOTE_CALL],
         [g EXCEPT !.serial = OtherSerial(serial)],
         [g EXCEPT !.prog = "OTHER_PROGRAM", !.vers = "OTHER_VERSION",
                   !.proc = OtherProc(proc_nr), !.direction = REMOTE_CALL,
                   !.serial = OtherSerial(serial)]}

\* Status of the reply and whether its body decodes.
Bodies ==
    {[status |-> REMOTE_OK, retOk |-> TRUE, errOk |-> FALSE],
     [status |-> REMOTE_OK, retOk |-> FALSE, errOk |-> FALSE],
     [status |-> REMOTE_ERROR, retOk |-> FALSE, errOk |-> TRUE],
     [status |-> REMOTE_ERROR, retOk |-> FALSE, errOk |-> FALSE],
     [status |-> "OTHER_STATUS", retOk |-> TRUE, errOk |-> TRUE]}

\* Length words a server may send.
LenWords ==
    {-1, 3, 4, 27, 28, REMOTE_MESSAGE_MAX, REMOTE_MESSAGE_MAX + 1,
     REMOTE_MESSAGE_MAX + 4, REMOTE_MESSAGE_MAX + 5, INT_MIN}

Reply(lenword, hdr, b) ==
    [lenword |-> lenword, hdr |-> [hdr EXCEPT !.status = b.status],
     retOk |-> b.retOk, errOk |-> b.errOk, rerror |-> "VIR_ERR_NO_SUPPORT"]

OkBody == [status |-> REMOTE_OK, retOk |-> TRUE, errOk |-> FALSE]
ErrorBody == [status |-> REMOTE_ERROR, retOk |-> FALSE, errOk |-> TRUE]

GoodReply(proc_nr, serial) == Reply(32, GoodHeader(proc_nr, serial), OkBody)

Replies(proc_nr, serial) ==
    {Reply(32, h, OkBody) : h \in Headers(proc_nr, serial)}
    \cup {Reply(32, GoodHeader(proc_nr, serial), b) : b \in Bodies}
    \cup {Reply(l, GoodHeader(proc_nr, serial), OkBody) : l \in LenWords}

\* Replies combined with disturbed system calls.
DisturbedReplies(proc_nr, serial) ==
    {Reply(3, GoodHeader(proc_nr, serial), OkBody),
     Reply(32, GoodHeader(proc_nr, serial), ErrorBody)}

Envs(priv, proc_nr) ==
    LET serial == priv.counter
        pairs ==
            {<<io, GoodReply(proc_nr, serial)>> : io \in IoScripts}
            \cup {<<<<>>, r>> : r \in Replies(proc_nr, serial)}
            \cup {<<io, r>> : io \in SeqsUpTo(IoOutcomes, 1),
                              r \in DisturbedReplies(proc_nr, serial)}
    IN  UNION {
          {[io |-> pr[1], reply |-> pr[2], ub |-> ub, ubLen |-> ubLen] :
              ub \in (IF priv.counter = INT_MAX
                      THEN CounterOverflowResults ELSE {0}),
              ubLen \in (IF pr[2].lenword < INT_MIN + 4
                         THEN LenOverflowResults(pr[2].lenword) ELSE {0})} :
          pr \in pairs}

(***************************************************************************)
(* The environment of remoteOpen                                           *)
(***************************************************************************)
Uri(given, parsed, scheme, user, server, port, path, query) ==
    [given |-> given, parsed |-> parsed, scheme |-> scheme, user |-> user,
     server |-> server, port |-> port, path |-> path, query |-> query]

\* A URI of scheme q with the transport suffix t: q+t://[user@][server][:port]/s[?query]
RemoteUri(t, user, server, port, query) ==
    Uri(TRUE, TRUE, <<"q", "+">> \o t, user, server, port, <<"/", "s">>, query)

Uris ==
    {Uri(FALSE, FALSE, <<>>, <<>>, <<>>, 0, <<>>, <<>>),
     Uri(TRUE, FALSE, <<>>, <<>>, <<>>, 0, <<>>, <<>>),
     Uri(TRUE, TRUE, <<>>, <<>>, <<(<<"h">>)>>, 0, <<"/", "s">>, <<>>),
     Uri(TRUE, TRUE, <<"q">>, <<>>, <<>>, 0, <<"/", "s">>, <<>>),
     Uri(TRUE, TRUE, <<"q">>, <<>>, <<(<<"h">>)>>, 0, <<"/", "s">>, <<>>),
     RemoteUri(<<"t", "l", "s">>, <<>>, <<(<<"h">>)>>, 0,
               <<(<<"n", "o", "_", "v", "e", "r", "i", "f", "y", "=", "1">>)>>),
     RemoteUri(<<"t", "l", "s">>, <<>>, <<(<<"h">>)>>, 0,
               <<(<<"n", "o", "_", "v", "e", "r", "i", "f", "y", "=", "0">>)>>),
     RemoteUri(<<"T", "c", "P">>, <<>>, <<(<<"h">>)>>, 0, <<>>),
     Uri(TRUE, TRUE, <<"q", "+", "t", "c", "p">>, <<>>, <<>>, 0,
         <<"/", LongRun>>, <<>>),
     RemoteUri(<<"t", "c", "p">>, <<(<<"u">>)>>, <<(<<"h">>)>>, 5,
               <<(<<"a", "=", "b", "&", "s", "o", "c", "k", "e", "t", "=", "k",
                    "&", "c", "=", "%", "3", "D">>)>>),
     RemoteUri(<<"t", "c", "p">>, <<>>, <<(<<"h">>)>>, 0,
               <<(<<"n", "a", "m", "e", "=", "x", "&", "a", "=", "b">>)>>),
     RemoteUri(<<"u", "n", "i", "x">>, <<>>, <<>>, 0, <<>>),
     RemoteUri(<<"s", "s", "h">>, <<(<<"u">>)>>, <<(<<"h">>)>>, 0,
               <<(<<"n", "e", "t", "c", "a", "t", "=", "n">>)>>),
     RemoteUri(<<"s", "s", "h">>, <<(<<"u">>)>>, <<(<<"h">>)>>, 22,
               <<(<<"s", "o", "c", "k", "e", "t", "=", "k">>)>>),
     RemoteUri(<<"s", "s", "h">>, <<>>, <<>>, 0, <<>>),
     RemoteUri(<<"e", "x", "t">>, <<>>, <<>>, 0,
               <<(<<"c", "o", "m", "m", "a", "n", "d", "=", "c">>)>>),
     RemoteUri(<<"e", "x", "t">>, <<>>, <<>>, 0, <<>>),
     RemoteUri(<<>>, <<>>, <<(<<"h">>)>>, 0, <<>>),
     RemoteUri(<<"x", "e", "n">>, <<>>, <<(<<"h">>)>>, 0, <<>>)}

\* uri_str and flags.
OpenInputs ==
    {[u |-> u, flags |-> "0"] : u \in Uris}
    \cup {[u |-> RemoteUri(<<"u", "n", "i", "x">>, <<>>, <<>>, 0, <<>>),
           flags |-> "VIR_CONNECT_RO"]}

DialDefault ==
    [loads |-> "loaded", gai |-> TRUE, addrs |-> <<"connected">>,
     unix |-> "connected", spawn |-> "spawned", malloc |-> TRUE]

AddrSeqs(S) == SeqsUpTo(S, MaxAddrs) \ {<<>>}

TcpOutcomes == {"socket_fails", "connect_fails", "connected"}
TlsOutcomes ==
    TcpOutcomes \cup {"handshake_fails", "verify_fails", "ack_fails"}

DialEnvs(transport) ==
    LET tcp(S) == {[DialDefault EXCEPT !.gai = FALSE],
                   [DialDefault EXCEPT !.malloc = FALSE]}
                  \cup {[DialDefault EXCEPT !.addrs = a] : a \in AddrSeqs(S)}
    IN  CASE transport = "trans_tls" ->
               {[DialDefault EXCEPT !.loads = l] :
                   l \in {"gnutls_certificate_allocate_credentials",
                          "gnutls_certificate_set_x509_trust_file",
                          "gnutls_certificate_set_x509_key_file"}}
               \cup tcp(TlsOutcomes)
          [] transport = "trans_tcp" -> tcp(TcpOutcomes)
          [] transport = "trans_unix" ->
               {[DialDefault EXCEPT !.unix = x, !.malloc = m] :
                   x \in {"socket_fails", "connect_fails", "connected"},
                   m \in BOOLEAN}
          [] transport \in {"trans_ssh", "trans_ext"} ->
               {[DialDefault EXCEPT !.spawn = x, !.malloc = m] :
                   x \in {"socketpair_fails", "fork_fails", "spawned"},
                   m \in BOOLEAN}
          [] OTHER -> {DialDefault}

\* Dialling that connects, at once, after an address that failed, and past
\* a certificate that does not verify.
DialBases ==
    {DialDefault, [DialDefault EXCEPT !.addrs = <<"connect_fails", "connected">>],
     [DialDefault EXCEPT !.addrs = <<"verify_fails">>]}

GoodEnv(proc_nr, serial) ==
    [io |-> <<>>, reply |-> GoodReply(proc_nr, serial), ub |-> 0, ubLen |-> 0]

\* What the environment does during remoteOpen: it varies while dialling,
\* or during the open call.
OpenEnvs(transport) ==
    {[d |-> d, env |-> GoodEnv("REMOTE_PROC_OPEN", 0)] : d \in DialEnvs(transport)}
    \cup {[d |-> d, env |-> env] :
             d \in DialBases, env \in Envs(InitialPriv, "REMOTE_PROC_OPEN")}

(***************************************************************************)
(* Initial states and actions                                              *)
(***************************************************************************)
NoneEarlier == [wrapped |-> FALSE, next |-> 0]

\* A fresh handle, in a process that may have initialised GnuTLS before.
Init ==
    /\ conn = [privateData |-> <<>>]
    /\ openFds = {}
    /\ initialised \in BOOLEAN
    /\ serials = <<>>
    /\ earlier = NoneEarlier
    /\ nops = 0
    /\ op = NoOp

SerialsOf(calls) ==
    [i \in 1..Len(calls) |-> [serial |-> calls[i].serial, ret |-> calls[i].ret]]

\* The effect of remoteOpen (uri_str, flags) whose result is r.
Opened(in, d, r) ==
    /\ conn' = [privateData |-> r.privateData]
    /\ openFds' = r.fds
    /\ initialised' = r.initialised
    /\ serials' = SerialsOf(r.calls)
    /\ op' = [name |-> "remoteOpen", ret |-> r.ret, errs |-> r.errs,
              calls |-> r.calls, closes |-> r.closes, bye |-> r.bye,
              before |-> <<>>, chanWasOpen |-> FALSE,
              u |-> in.u, flags |-> in.flags, d |-> d, did |-> r.did]
    /\ UNCHANGED <<earlier, nops>>

\* remoteOpen is invoked once on a handle, when the handle is new.
RemoteOpen ==
    /\ op.name = "none"
    /\ ~Installed
    /\ \E in \in OpenInputs :
         \E e \in OpenEnvs(transport_of(get_transport_from_scheme(in.u.scheme))) :
           Opened(in, e.d, remoteOpen(in.u, in.flags, e.d, e.env, openFds,
                                      initialised))

\* The effect of a driver operation whose result is r.
Invoked(name, r) ==
    /\ conn' = [privateData |-> <<r.priv>>]
    /\ openFds' = r.fds
    /\ serials' = serials \o SerialsOf(r.calls)
    /\ nops' = nops + 1
    /\ op' = [name |-> name, ret |-> r.ret, errs |-> r.errs, calls |-> r.calls,
              closes |-> r.closes, bye |-> r.bye, before |-> <<Priv>>,
              chanWasOpen |-> ChanOpen(Priv)]
    /\ UNCHANGED <<initialised, earlier>>

RemoteClose ==
    /\ Installed
    /\ nops < MaxOps
    /\ \E env \in Envs(Priv, "REMOTE_PROC_CLOSE") :
         Invoked("remoteClose", remoteClose(Priv, openFds, env))

RemoteType ==
    /\ Installed
    /\ nops < MaxOps
    /\ \E env \in Envs(Priv, "REMOTE_PROC_GET_TYPE") :
         Invoked("remoteType", remoteType(Priv, openFds, env))

RemoteVersion ==
    /\ Installed
    /\ nops < MaxOps
    /\ \E env \in Envs(Priv, "REMOTE_PROC_GET_VERSION") :
         Invoked("remoteVersion", remoteVersion(Priv, openFds, env))

Next == RemoteOpen \/ RemoteClose \/ RemoteType \/ RemoteVersion

Spec == Init /\ [][Next]_vars

(***************************************************************************)
(* A connection that has been in use for long.  The calls made before are  *)
(* not listed one by one: earlier.next is the counter they left, and       *)
(* earlier.wrapped tells whether the counter has passed INT_MAX and        *)
(* wrapped to INT_MIN on the way.  The serials assigned before are then    *)
(* 0 .. next-1, or, wrapped, 0 .. INT_MAX and INT_MIN .. next-1.           *)
(***************************************************************************)
EarlierAssigned(serial) ==
    IF earlier.wrapped
    THEN serial >= 0 \/ serial < earlier.next
    ELSE 0 <= serial /\ serial < earlier.next

LongLived ==
    /\ \E tls \in BOOLEAN, n \in {INT_MAX - 1, INT_MAX, -1} :
         /\ conn = [privateData |->
                      <<[magic |-> MAGIC, sock |-> 3, uses_tls |-> tls,
                         session |-> IF tls THEN "session" ELSE "NULL",
                         type |-> "NULL", counter |-> n]>>]
         /\ earlier = [wrapped |-> n < 0, next |-> n]
    /\ openFds = {3}
    /\ initialised \in BOOLEAN
    /\ serials = <<>>
    /\ nops = 0
    /\ op = [NoOp EXCEPT !.name = "earlier"]

InitLong == Init \/ LongLived

SpecLong == InitLong /\ [][Next]_vars

(***************************************************************************)
(* The query string on its own: remoteOpen's steps on uri->query, for      *)
(* query strings put together from a few sections.                         *)
(***************************************************************************)
MaxSections == 2

\* Sections of a query string: empty, with and without '=', with names and
\* values that hold escaped characters, and with names remoteOpen extracts.
Sections ==
    {<<>>, <<"=">>, <<"a">>, <<"a", "=">>, <<"=", "b">>, <<"a", "=", "b">>,
     <<"c", "=", "d">>, <<"n", "a", "m", "e", "=", "x">>,
     <<"N", "a", "M", "e", "=", "y">>, <<"a", "=", "%", "2", "6">>,
     <<"%", "3", "D", "=", "b">>}

RECURSIVE JoinSections(_)
JoinSections(ss) ==
    IF ss = <<>> THEN <<>>
    ELSE IF Len(ss) = 1 THEN ss[1]
    ELSE ss[1] \o <<"&">> \o JoinSections(Tail(ss))

\* uri->query: NULL, or the text of up to MaxSections sections.
Queries ==
    {<<>>} \cup {<<JoinSections(ss)>> : ss \in SeqsUpTo(Sections, MaxSections)}

InitQuery ==
    /\ conn = [privateData |-> <<>>]
    /\ openFds = {}
    /\ initialised = FALSE
    /\ serials = <<>>
    /\ earlier = NoneEarlier
    /\ nops = 0
    /\ op \in {[name |-> "uri", query |-> q] : q \in Queries}

\* query_parse (uri->query, NULL, &vars)
QueryParse ==
    /\ op.name = "uri"
    /\ op' = [name |-> "query_parse", query |-> op.query,
              vars |-> query_parse(op.query)]
    /\ UNCHANGED <<conn, openFds, initialised, serials, earlier, nops>>

\* for (var = vars; var; var = var->next): the variables are taken out and
\* marked.
ExtractVars ==
    /\ op.name = "query_parse"
    /\ op' = [name |-> "extract_vars", query |-> op.query, vars |-> op.vars,
              x |-> extract_vars(op.vars, NoVars)]
    /\ UNCHANGED <<conn, openFds, initialised, serials, earlier, nops>>

\* query_create (vars, NULL, &uri->query)
QueryCreate ==
    /\ op.name = "extract_vars"
    /\ op' = [name |-> "query_create", query |-> op.query, vars |-> op.vars,
              x |-> op.x, rebuilt |-> query_create(op.x.vars)]
    /\ UNCHANGED <<conn, openFds, initialised, serials, earlier, nops>>

NextQuery == QueryParse \/ ExtractVars \/ QueryCreate

SpecQuery == InitQuery /\ [][NextQuery]_vars

(***************************************************************************)
(* The TLS bring-up on its own: verify_certificate and                     *)
(* negotiate_gnutls_on_connection for peers of every kind.                 *)
(***************************************************************************)
MaxChain == 2
MaxRetries == 2

\* Certificates: not importable, or with activation and expiration before,
\* at and after now (2), matching the hostname or not.
Certs ==
    {Cert(FALSE, 1, 3, TRUE)}
    \cup {Cert(TRUE, a, e, h) : a \in 1..3, e \in 1..3, h \in BOOLEAN}

\* What verify_certificate may find: any chain, or something wrong before
\* the chain is looked at.
CertInputs ==
    {[GoodPeer.cert EXCEPT !.chain = ch] : ch \in SeqsUpTo(Certs, MaxChain)}
    \cup {[GoodPeer.cert EXCEPT !.peers2 = -1], [GoodPeer.cert EXCEPT !.time = -1],
          [GoodPeer.cert EXCEPT !.status = {"GNUTLS_CERT_INVALID"}],
          [GoodPeer.cert EXCEPT !.status = {"GNUTLS_CERT_INVALID",
                                            "GNUTLS_CERT_REVOKED"}],
          [GoodPeer.cert EXCEPT !.type = "GNUTLS_CRT_OPENPGP"]}

\* Returns of a call that is retried up to MaxRetries times and then ends
\* with one of last.
Retried(last) ==
    {again \o <<l>> :
        again \in SeqsUpTo({Returned(-1, "GNUTLS_E_AGAIN", 0),
                            Returned(-1, "GNUTLS_E_INTERRUPTED", 0)}, MaxRetries),
        l \in last}

\* Peers: any certificate; any answer where the server's byte is awaited,
\* with a certificate that verifies or one that has expired; any handshake;
\* a session that cannot be set up.
Peers ==
    {[GoodPeer EXCEPT !.cert = c] : c \in CertInputs}
    \cup {[GoodPeer EXCEPT !.recv = r, !.cert.chain = <<Cert(TRUE, 1, e, TRUE)>>] :
             r \in Retried({Returned(1, "", 1), Returned(1, "", 0),
                            Returned(1, "", 2), Returned(0, "", 0),
                            Returned(-1, "GNUTLS_E_UNEXPECTED_PACKET_LENGTH", 0),
                            Returned(-1, "GNUTLS_E_OTHER", 0)}),
             e \in {1, 3}}
    \cup {[GoodPeer EXCEPT !.handshake = h] :
             h \in Retried({Returned(0, "", 0), Returned(-1, "GNUTLS_E_OTHER", 0)})}
    \cup {[GoodPeer EXCEPT !.setup = "gnutls_init"]}

InitTls ==
    /\ conn = [privateData |-> <<>>]
    /\ openFds = {}
    /\ initialised = TRUE
    /\ serials = <<>>
    /\ earlier = NoneEarlier
    /\ nops = 0
    /\ op \in {[name |-> "peer", no_verify |-> n, t |-> t] :
                 n \in {0, 1}, t \in Peers}

\* verify_certificate (conn, session, hostname)
VerifyCertificate ==
    /\ op.name = "peer"
    /\ op' = [name |-> "verify_certificate", no_verify |-> op.no_verify,
              t |-> op.t, r |-> verify_certificate(op.t.cert)]
    /\ UNCHANGED <<conn, openFds, initialised, serials, earlier, nops>>

\* negotiate_gnutls_on_connection (conn, sock, no_verify, hostname)
Negotiate ==
    /\ op.name = "peer"
    /\ op' = [name |-> "negotiate_gnutls_on_connection",
              no_verify |-> op.no_verify, t |-> op.t,
              r |-> negotiate_gnutls_on_connection(op.no_verify, op.t)]
    /\ UNCHANGED <<conn, openFds, initialised, serials, earlier, nops>>

NextTls == VerifyCertificate \/ Negotiate

SpecTls == InitTls /\ [][NextTls]_vars

(***************************************************************************)
(* Two threads of one process in remoteOpen with the tls transport.  The   *)
(* static flag of initialise_gnutls is the variable initialised; x509_cred *)
(* is op.cred: alloc counts the allocations, trust and key tell what the   *)
(* structure x509_cred now points to has been loaded with.  op.pc is where *)
(* each thread stands: before the statement named, "negotiate" when it is  *)
(* bringing up a session with x509_cred, "failed" after return -1.         *)
(***************************************************************************)
Threads == {1, 2}

InitThreads ==
    /\ conn = [privateData |-> <<>>]
    /\ openFds = {}
    /\ initialised = FALSE
    /\ serials = <<>>
    /\ earlier = NoneEarlier
    /\ nops = 0
    /\ op = [name |-> "threads", pc |-> [t \in Threads |-> "if (initialised)"],
             cred |-> [alloc |-> 0, trust |-> FALSE, key |-> FALSE]]

\* One statement of initialise_gnutls in thread t; each library call may
\* fail.
InitialiseGnutls(t) ==
    /\ op.name = "threads"
    /\ \/ /\ op.pc[t] = "if (initialised)"
          /\ op' = [op EXCEPT !.pc[t] = IF initialised THEN "return 0"
                                        ELSE "allocate_credentials"]
          /\ UNCHANGED initialised
       \/ /\ op.pc[t] = "allocate_credentials"
          /\ \/ op' = [op EXCEPT !.pc[t] = "set_x509_trust_file",
                                 !.cred = [alloc |-> op.cred.alloc + 1,
                                           trust |-> FALSE, key |-> FALSE]]
             \/ op' = [op EXCEPT !.pc[t] = "failed"]
          /\ UNCHANGED initialised
       \/ /\ op.pc[t] = "set_x509_trust_file"
          /\ \/ op' = [op EXCEPT !.pc[t] = "set_x509_key_file", !.cred.trust = TRUE]
             \/ op' = [op EXCEPT !.pc[t] = "failed"]
          /\ UNCHANGED initialised
       \/ /\ op.pc[t] = "set_x509_key_file"
          /\ \/ op' = [op EXCEPT !.pc[t] = "initialised = 1", !.cred.key = TRUE]
             \/ op' = [op EXCEPT !.pc[t] = "failed"]
          /\ UNCHANGED initialised
       \/ /\ op.pc[t] = "initialised = 1"
          /\ initialised' = TRUE
          /\ op' = [op EXCEPT !.pc[t] = "return 0"]
    /\ UNCHANGED <<conn, openFds, serials, earlier, nops>>

\* remoteOpen goes on to negotiate_gnutls_on_connection, which puts
\* x509_cred into the session.
UseCredentials(t) ==
    /\ op.name = "threads"
    /\ op.pc[t] = "return 0"
    /\ op' = [op EXCEPT !.pc[t] = "negotiate"]
    /\ UNCHANGED <<conn, openFds, initialised, serials, earlier, nops>>

NextThreads == \E t \in Threads : InitialiseGnutls(t) \/ UseCredentials(t)

SpecThreads == InitThreads /\ [][NextThreads]_vars

(***************************************************************************)
(* The stubs on an open connection: the handle as a successful remoteOpen  *)
(* leaves it, and one stub invoked on it with array sizes up to one beyond *)
(* the largest ceiling, answered by a reply with arrays of any such        *)
(* length.                                                                 *)
(***************************************************************************)
Sizes == 0..(MaxElems + 1)

StubEnv(e, len, len2, unknown, oom, filtered) ==
    [call |-> e, len |-> len, len2 |-> len2, unknown |-> unknown, oom |-> oom,
     filtered |-> filtered]

\* What the environment does during the call of a stub: the request is
\* answered by a good header with any body, or the first write fails.
StubCallEnvs(priv, proc_nr) ==
    {[io |-> <<>>, reply |-> Reply(32, GoodHeader(proc_nr, priv.counter), b),
      ub |-> 0, ubLen |-> 0] : b \in Bodies}
    \cup {[GoodEnv(proc_nr, priv.counter) EXCEPT !.io = <<SysFailed("EIO")>>]}

\* The environments of a stub whose reply holds one array.
ListEnvs(proc_nr) ==
    {StubEnv(e, len, 0, 0, FALSE, FALSE) :
        e \in StubCallEnvs(Priv, proc_nr), len \in Sizes}

InitStubs ==
    /\ \E tls \in BOOLEAN :
         conn = [privateData |->
                   <<[magic |-> MAGIC, sock |-> 3, uses_tls |-> tls,
                      session |-> IF tls THEN "session" ELSE "NULL",
                      type |-> "NULL", counter |-> 1]>>]
    /\ openFds = {3}
    /\ initialised \in BOOLEAN
    /\ serials = <<[serial |-> 0, ret |-> 0]>>
    /\ earlier = NoneEarlier
    /\ nops = 0
    /\ op = [NoOp EXCEPT !.name = "remoteOpen"]

\* The effect of a stub invoked with the sizes max and maplen under env,
\* whose result is r.
Stubbed(name, max, maplen, env, r) ==
    /\ conn' = [privateData |-> <<r.priv>>]
    /\ openFds' = r.fds
    /\ serials' = serials \o SerialsOf(r.calls)
    /\ nops' = nops + 1
    /\ op' = [name |-> name, ret |-> r.ret, errs |-> r.errs, calls |-> r.calls,
              closes |-> <<>>, bye |-> FALSE, before |-> <<Priv>>,
              chanWasOpen |-> ChanOpen(Priv), max |-> max, maplen |-> maplen,
              len |-> env.len, len2 |-> env.len2, copied |-> r.copied,
              freed |-> r.freed, nparams |-> r.nparams]
    /\ UNCHANGED <<initialised, earlier>>

RemoteListDomains ==
    /\ nops = 0
    /\ \E maxids \in Sizes, env \in ListEnvs("REMOTE_PROC_LIST_DOMAINS") :
         Stubbed("remoteListDomains", maxids, 0, env,
                 remoteListDomains(Priv, openFds, env, maxids))

RemoteListDefinedDomains ==
    /\ nops = 0
    /\ \E maxnames \in Sizes,
          env \in ListEnvs("REMOTE_PROC_LIST_DEFINED_DOMAINS") :
         Stubbed("remoteListDefinedDomains", maxnames, 0, env,
                 remoteListDefinedDomains(Priv, openFds, env, maxnames))

RemoteListNetworks ==
    /\ nops = 0
    /\ \E maxnames \in Sizes, env \in ListEnvs("REMOTE_PROC_LIST_NETWORKS") :
         Stubbed("remoteListNetworks", maxnames, 0, env,
                 remoteListNetworks(Priv, openFds, env, maxnames))

RemoteListDefinedNetworks ==
    /\ nops = 0
    /\ \E maxnames \in Sizes,
          env \in ListEnvs("REMOTE_PROC_LIST_DEFINED_NETWORKS") :
         Stubbed("remoteListDefinedNetworks", maxnames, 0, env,
                 remoteListDefinedNetworks(Priv, openFds, env, maxnames))

RemoteDomainPinVcpu ==
    /\ nops = 0
    /\ \E maplen \in Sizes, e \in StubCallEnvs(Priv, "REMOTE_PROC_DOMAIN_PIN_VCPU") :
         Stubbed("remoteDomainPinVcpu", maplen, maplen,
                 StubEnv(e, 0, 0, 0, FALSE, FALSE),
                 remoteDomainPinVcpu(Priv, openFds,
                                     StubEnv(e, 0, 0, 0, FALSE, FALSE), maplen))

RemoteDomainGetVcpus ==
    /\ nops = 0
    /\ \E maxinfo \in Sizes, maplen \in 1..MaxElems,
          env \in ListEnvs("REMOTE_PROC_DOMAIN_GET_VCPUS"), len2 \in Sizes :
         Stubbed("remoteDomainGetVcpus", maxinfo, maplen,
                 [env EXCEPT !.len2 = len2],
                 remoteDomainGetVcpus(Priv, openFds, [env EXCEPT !.len2 = len2],
                                      maxinfo, maplen, 0))

RemoteDomainGetSchedulerParameters ==
    /\ nops = 0
    /\ \E nparams \in Sizes, unknown \in 0..1,
          env \in ListEnvs("REMOTE_PROC_DOMAIN_GET_SCHEDULER_PARAMETERS") :
         Stubbed("remoteDomainGetSchedulerParameters", nparams, 0, env,
                 remoteDomainGetSchedulerParameters(
                     Priv, openFds, [env EXCEPT !.unknown = unknown], nparams))

RemoteDomainSetSchedulerParameters ==
    /\ nops = 0
    /\ \E nparams \in Sizes, unknown \in 0..1, oom \in BOOLEAN,
          filtered \in BOOLEAN,
          e \in StubCallEnvs(Priv, "REMOTE_PROC_DOMAIN_SET_SCHEDULER_PARAMETERS") :
         Stubbed("remoteDomainSetSchedulerParameters", nparams, 0,
                 StubEnv(e, 0, 0, unknown, oom, filtered),
                 remoteDomainSetSchedulerParameters(
                     Priv, openFds, StubEnv(e, 0, 0, unknown, oom, filtered),
                     nparams))

NextStubs ==
    \/ RemoteListDomains \/ RemoteListDefinedDomains
    \/ RemoteListNetworks \/ RemoteListDefinedNetworks
    \/ RemoteDomainPinVcpu \/ RemoteDomainGetVcpus
    \/ RemoteDomainGetSchedulerParameters
    \/ RemoteDomainSetSchedulerParameters

SpecStubs == InitStubs /\ [][NextStubs]_vars

(***************************************************************************)
(* remoteOpen over a spawned command whose process never answers: the      *)
(* steps of the parent after fork, one system call at a time, while the    *)
(* child exits at some moment without having read or written anything.     *)
(* op.pc is the parent's position and op.left the bytes the loop it is in  *)
(* still has to transfer; op.child tells whether the far end of the socket *)
(* pair is still open, op.sigpipe the process's disposition of SIGPIPE     *)
(* (this file installs none), and op.sent whether bytes wait unread at the *)
(* far end.                                                                *)
(***************************************************************************)
\* Parent continues here: close (sv[1]); priv.sock = sv[0]; and call()
\* has serialised header and args of REMOTE_PROC_OPEN for some name.
InitExt ==
    /\ conn = [privateData |-> <<>>]
    /\ openFds = {3}
    /\ initialised = FALSE
    /\ serials = <<>>
    /\ earlier = NoneEarlier
    /\ nops = 0
    /\ op \in {[name |-> "remoteOpen", transport |-> t, sigpipe |-> s,
                child |-> "running", pc |-> "write buffer2", left |-> 4,
                len |-> request_length(HEADER_LEN + open_args_length(n)),
                sent |-> FALSE, retries |-> 0, ret |-> "", errs |-> <<>>] :
                  t \in {"trans_ext", "trans_ssh"},
                  s \in {"SIG_DFL", "SIG_IGN"}, n \in {0, 5}}

\* The spawned process exits; its ends of the socket pair are closed.
ChildExits ==
    /\ op.child = "running"
    /\ op.pc \notin {"returned", "killed"}
    /\ op' = [op EXCEPT !.child = "exited"]
    /\ UNCHANGED <<conn, openFds, initialised, serials, earlier, nops>>

\* The position after the loop at pc has transferred all its bytes.
AfterLoop(o) ==
    IF o.pc = "write buffer2"
    THEN [o EXCEPT !.pc = "write buffer", !.left = o.len - 4]
    ELSE [o EXCEPT !.pc = "read buffer2", !.left = 4]

\* One write (priv->sock, p, len) of really_write's loop.  While the far end
\* is open it takes some of the bytes, or is interrupted and tried again;
\* once the far end is closed it raises SIGPIPE, which ends the process
\* unless the signal is ignored, and then fails with EPIPE.
ReallyWrite ==
    /\ op.pc \in {"write buffer2", "write buffer"}
    /\ \/ /\ op.child = "running"
          /\ \E k \in {1, op.left} :
               op' = IF op.left - k > 0
                     THEN [op EXCEPT !.left = op.left - k, !.sent = TRUE]
                     ELSE AfterLoop([op EXCEPT !.sent = TRUE])
       \/ /\ op.child = "running"
          /\ op.retries < MaxRetries
          /\ op' = [op EXCEPT !.retries = op.retries + 1]
       \/ /\ op.child = "exited"
          /\ op' = IF op.sigpipe = "SIG_DFL"
                   THEN [op EXCEPT !.pc = "killed"]
                   ELSE [op EXCEPT !.pc = "failed",
                           !.errs = <<RaisedError(FALSE, "VIR_ERR_SYSTEM_ERROR",
                                                  "EPIPE")>>]
    /\ UNCHANGED <<conn, openFds, initialised, serials, earlier, nops>>

\* One read (priv->sock, p, len) of really_read's loop, for the length word
\* of the reply.  While the far end is open and silent the read blocks, or
\* is interrupted and tried again; once the far end is closed it returns 0,
\* or fails with ECONNRESET when the far end left bytes unread.
ReallyRead ==
    /\ op.pc = "read buffer2"
    /\ \/ /\ op.child = "running"
          /\ op.retries < MaxRetries
          /\ op' = [op EXCEPT !.retries = op.retries + 1]
       \/ /\ op.child = "exited"
          /\ op' = [op EXCEPT !.pc = "failed",
                      !.errs = <<RaisedError(FALSE, "VIR_ERR_RPC",
                                             "socket closed unexpectedly")>>]
       \/ /\ op.child = "exited"
          /\ op.sent
          /\ op' = [op EXCEPT !.pc = "failed",
                      !.errs = <<RaisedError(FALSE, "VIR_ERR_SYSTEM_ERROR",
                                             "ECONNRESET")>>]
    /\ UNCHANGED <<conn, openFds, initialised, serials, earlier, nops>>

\* goto failed: close (priv.sock); return retcode.
Failed ==
    /\ op.pc = "failed"
    /\ openFds' = openFds \ {3}
    /\ op' = [op EXCEPT !.pc = "returned", !.ret = VIR_DRV_OPEN_ERROR]
    /\ UNCHANGED <<conn, initialised, serials, earlier, nops>>

NextExt == ChildExits \/ ReallyWrite \/ ReallyRead \/ Failed

\* Every system call returns, and the child exits.
SpecExt == InitExt /\ [][NextExt]_vars /\ WF_vars(NextExt)

(***************************************************************************)
(* Two tasks in call() on one connection.  op.counter is priv->counter,    *)
(* op.out the pieces written to the socket in the order of the writes,     *)
(* op.in the pieces of the replies not yet read, each frame being a length *)
(* word and a body.  The server answers a request whose two pieces arrive  *)
(* one after the other with a reply that carries the request's procedure   *)
(* and serial (for: the task that sent it) and hangs up when the pieces of *)
(* two requests are mixed.  A read that starts inside a frame fails, since *)
(* what it takes for the length word is the program number of a header.    *)
(***************************************************************************)
InitTasks ==
    /\ conn = [privateData |-> <<>>]
    /\ openFds = {3}
    /\ initialised = FALSE
    /\ serials = <<>>
    /\ earlier = NoneEarlier
    /\ nops = 0
    /\ \E p1, p2 \in {"REMOTE_PROC_GET_TYPE", "REMOTE_PROC_GET_VERSION"} :
         op = [name |-> "call", counter |-> 1,
               pc |-> [t \in Threads |-> "priv->counter"],
               proc |-> <<p1, p2>>,
               serial |-> [t \in Threads |-> -1],
               out |-> <<>>, served |-> 0, in |-> <<>>,
               hungUp |-> FALSE, cut |-> FALSE,
               got |-> [t \in Threads |-> <<>>],
               ret |-> [t \in Threads |-> 1],
               errs |-> [t \in Threads |-> ""]]

Piece(kind, t, proc_nr, serial) ==
    [kind |-> kind, for |-> t, proc |-> proc_nr, serial |-> serial]

\* int serial = priv->counter++: the counter is loaded, then stored.
TakeSerial(t) ==
    /\ op.name = "call"
    /\ \/ /\ op.pc[t] = "priv->counter"
          /\ op' = [op EXCEPT !.serial[t] = op.counter, !.pc[t] = "counter++"]
       \/ /\ op.pc[t] = "counter++"
          /\ op' = [op EXCEPT !.counter = op.serial[t] + 1,
                              !.pc[t] = "write buffer2"]
    /\ UNCHANGED <<conn, openFds, initialised, serials, earlier, nops>>

\* really_write (buffer2), then really_write (buffer).
WriteRequest(t) ==
    /\ op.name = "call"
    /\ \/ /\ op.pc[t] = "write buffer2"
          /\ op' = [op EXCEPT
                      !.out = Append(@, Piece("length", t, op.proc[t],
                                              op.serial[t])),
                      !.pc[t] = "write buffer"]
       \/ /\ op.pc[t] = "write buffer"
          /\ op' = [op EXCEPT
                      !.out = Append(@, Piece("body", t, op.proc[t],
                                              op.serial[t])),
                      !.pc[t] = "read buffer2"]
    /\ UNCHANGED <<conn, openFds, initialised, serials, earlier, nops>>

\* The server takes the next request off the stream.
Serve ==
    /\ op.name = "call"
    /\ ~op.hungUp
    /\ op.served + 2 <= Len(op.out)
    /\ op' = IF op.out[op.served + 2] =
                    [op.out[op.served + 1] EXCEPT !.kind = "body"]
             THEN [op EXCEPT !.served = @ + 2,
                             !.in = @ \o <<op.out[op.served + 1],
                                          op.out[op.served + 2]>>]
             ELSE [op EXCEPT !.hungUp = TRUE]
    /\ UNCHANGED <<conn, openFds, initialised, serials, earlier, nops>>

\* The end of call() in task t with an error.
call_failed(o, t, info) ==
    [o EXCEPT !.pc[t] = "return", !.ret[t] = -1, !.errs[t] = info]

\* really_read (buffer2), the check of the length, really_read (buffer).
ReadReply(t) ==
    /\ op.name = "call"
    /\ op.pc[t] \in {"read buffer2", "read buffer"}
    /\ \/ /\ op.in # <<>>
          /\ op' = IF op.cut \/ (op.pc[t] = "read buffer"
                                   /\ Head(op.in).kind # "body")
                   THEN call_failed([op EXCEPT !.in = Tail(@), !.cut = TRUE], t,
                                    "xdr_remote_message_header (reply)")
                   ELSE IF op.pc[t] = "read buffer2"
                   THEN IF Head(op.in).kind = "length"
                        THEN [op EXCEPT !.in = Tail(@), !.pc[t] = "read buffer"]
                        ELSE call_failed([op EXCEPT !.in = Tail(@), !.cut = TRUE],
                                 t, "packet received from server too large")
                   ELSE [op EXCEPT !.in = Tail(@), !.got[t] = <<Head(op.in)>>,
                                   !.pc[t] = "header"]
       \/ /\ op.in = <<>>
          /\ op.hungUp
          /\ op' = call_failed(op, t, "socket closed unexpectedly")
    /\ UNCHANGED <<conn, openFds, initialised, serials, earlier, nops>>

\* The reply header is checked against the task's procedure and serial.
CheckReply(t) ==
    /\ op.name = "call"
    /\ op.pc[t] = "header"
    /\ op' = IF header_mismatch(GoodHeader(op.got[t][1].proc,
                                           op.got[t][1].serial),
                                op.proc[t], op.serial[t]) # ""
             THEN call_failed(op, t,
                      header_mismatch(GoodHeader(op.got[t][1].proc,
                                                 op.got[t][1].serial),
                                      op.proc[t], op.serial[t]))
             ELSE [op EXCEPT !.pc[t] = "return", !.ret[t] = 0]
    /\ UNCHANGED <<conn, openFds, initialised, serials, earlier, nops>>

NextTasks ==
    \/ \E t \in Threads :
         TakeSerial(t) \/ WriteRequest(t) \/ ReadReply(t) \/ CheckReply(t)
    \/ Serve

SpecTasks == InitTasks /\ [][NextTasks]_vars

(***************************************************************************)
(* really_read and really_write one system call at a time, with the bytes  *)
(* they move.  op.bytes is the caller's buffer and op.p the offset of p in  *)
(* it, op.len what is left to transfer, op.channel the bytes the channel   *)
(* still has to deliver (really_read) or has been handed (really_write).   *)
(* The bytes of a stream are numbered 1, 2, ...; 0 is a byte of the buffer *)
(* that was never stored.                                                  *)
(***************************************************************************)
InitIo ==
    /\ conn = [privateData |-> <<>>]
    /\ openFds = {3}
    /\ initialised = FALSE
    /\ serials = <<>>
    /\ earlier = NoneEarlier
    /\ nops = 0
    /\ \E tls \in BOOLEAN, n \in 0..MaxLen :
         \/ op = [name |-> "really_read", uses_tls |-> tls, asked |-> n,
                  len |-> n, p |-> 0, bytes |-> [i \in 1..n |-> 0],
                  channel |-> [i \in 1..MaxLen |-> i], retries |-> 0,
                  pc |-> "do", ret |-> 1, errs |-> <<>>]
         \/ op = [name |-> "really_write", uses_tls |-> tls, asked |-> n,
                  len |-> n, p |-> 0, bytes |-> [i \in 1..n |-> i],
                  channel |-> <<>>, retries |-> 0,
                  pc |-> "do", ret |-> 1, errs |-> <<>>]

\* The buffer after data has been stored at p.
stored(bytes, p, data) ==
    [i \in DOMAIN bytes |->
        IF i \in (p + 1)..(p + Len(data)) THEN data[i - p] ELSE bytes[i]]

\* A write that always starts again at the beginning of the buffer.
handed_from_start(bytes, p, k) == SubSeq(bytes, 1, k)

\* The k bytes a write is given: those at p.
handed(bytes, p, k) == SubSeq(bytes, p + 1, p + k)

\* len -= err; p += err; } while (len > 0); return 0;
io_advanced(o, err) ==
    [o EXCEPT !.len = o.len - err, !.p = o.p + err,
              !.pc = IF o.len - err > 0 THEN "do" ELSE "return",
              !.ret = IF o.len - err > 0 THEN 1 ELSE 0]

\* continue: the test of the do-while comes next.
io_continued(o) ==
    [o EXCEPT !.retries = o.retries + 1,
              !.pc = IF o.len > 0 THEN "do" ELSE "return",
              !.ret = IF o.len > 0 THEN 1 ELSE 0]

\* error (...); return -1;
io_failed(o, code, info) ==
    [o EXCEPT !.pc = "return", !.ret = -1,
              !.errs = <<RaisedError(TRUE, code, info)>>]

\* One turn of really_read's loop: read or gnutls_record_recv is asked for
\* len bytes and returns a failure, transient or not, or up to len bytes,
\* none when the stream has ended or when none was asked for.
ReadOnce ==
    /\ op.name = "really_read"
    /\ op.pc = "do"
    /\ \/ /\ op.retries < MaxRetries
          /\ op' = io_continued(op)
       \/ op' = io_failed(op, IoErrorCode(op.uses_tls), "EIO")
       \/ op' = io_failed(op, "VIR_ERR_RPC", "socket closed unexpectedly")
       \/ \E k \in 1..op.len :
            op' = io_advanced(
                      [op EXCEPT !.bytes = stored(@, op.p, SubSeq(op.channel, 1, k)),
                                 !.channel = SubSeq(@, k + 1, Len(@))], k)
    /\ UNCHANGED <<conn, openFds, initialised, serials, earlier, nops>>

\* One turn of really_write's loop: write or gnutls_record_send is given
\* len bytes and returns a failure, transient or not, or takes up to len
\* bytes.
WriteOnce ==
    /\ op.name = "really_write"
    /\ op.pc = "do"
    /\ \/ /\ op.retries < MaxRetries
          /\ op' = io_continued(op)
       \/ op' = io_failed(op, IoErrorCode(op.uses_tls), "EIO")
       \/ \E k \in (IF op.len = 0 \/ op.retries < MaxRetries THEN 0 ELSE 1)..op.len :
            op' = io_advanced(
                      [op EXCEPT !.channel = @ \o handed(op.bytes, op.p, k),
                                 !.retries = IF k = 0 THEN @ + 1 ELSE @], k)
    /\ UNCHANGED <<conn, openFds, initialised, serials, earlier, nops>>

NextIo == ReadOnce \/ WriteOnce

SpecIo == InitIo /\ [][NextIo]_vars

(***************************************************************************)
(* One process that opens connections one after the other, each on a new   *)
(* handle.  initialise_gnutls's flag is static: it is what one remoteOpen  *)
(* leaves to the next.  op holds the last remoteOpen, with the flag it     *)
(* found (was), the descriptors open when it began (fdsWas) and whether    *)
(* initialise_gnutls has failed in an earlier one (failedBefore).          *)
(***************************************************************************)
ProcessUris ==
    {RemoteUri(t, <<>>, <<(<<"h">>)>>, 0, <<>>) :
        t \in {<<"t", "l", "s">>, <<"t", "c", "p">>, <<"u", "n", "i", "x">>}}

\* What the environment does while one of them dials: every way for
\* initialise_gnutls to end, and dialling that connects and that does not.
ProcessDials(transport) ==
    {d \in DialEnvs(transport) :
        Len(d.addrs) = 1 \/ d.addrs = <<"handshake_fails", "connected">>}

InitProcess ==
    /\ conn = [privateData |-> <<>>]
    /\ openFds = {}
    /\ initialised = FALSE
    /\ serials = <<>>
    /\ earlier = NoneEarlier
    /\ nops = 0
    /\ op = NoOp

\* remoteOpen (uri_str, flags) on a new handle.
RemoteOpenNext ==
    /\ nops < MaxOps
    /\ \E u \in ProcessUris :
         \E d \in ProcessDials(transport_of(get_transport_from_scheme(u.scheme))) :
           LET r == remoteOpen(u, "0", d, GoodEnv("REMOTE_PROC_OPEN", 0),
                               openFds, initialised)
           IN  /\ conn' = [privateData |-> r.privateData]
               /\ openFds' = r.fds
               /\ initialised' = r.initialised
               /\ serials' = SerialsOf(r.calls)
               /\ nops' = nops + 1
               /\ op' = [name |-> "remoteOpen", ret |-> r.ret, errs |-> r.errs,
                         calls |-> r.calls, closes |-> r.closes, bye |-> r.bye,
                         before |-> <<>>, chanWasOpen |-> FALSE,
                         u |-> u, flags |-> "0", d |-> d, did |-> r.did,
                         was |-> initialised, fdsWas |-> openFds,
                         failedBefore |->
                             /\ op.name = "remoteOpen"
                             /\ \/ op.failedBefore
                                \/ /\ op.did.gnutls # <<>>
                                   /\ ~initialised]
    /\ UNCHANGED earlier

NextProcess == RemoteOpenNext

SpecProcess == InitProcess /\ [][NextProcess]_vars

(***************************************************************************)
(* The port on its own: remoteOpen's choice of transport and port for      *)
(* URIs of every transport, with and without a port.                       *)
(***************************************************************************)
\* uri->port: 0 when the URI names no port.
Ports == {0, 1, 9, 10, 22, 99, 100, 443, 16509, 65535}

\* Schemes: without a transport, and with each transport's name.
PortSchemes ==
    {<<"q">>} \cup
    {<<"q", "+">> \o t :
        t \in {<<"t", "l", "s">>, <<"t", "c", "p">>, <<"s", "s", "h">>,
               <<"S", "s", "H">>, <<"u", "n", "i", "x">>, <<"e", "x", "t">>}}

InitPort ==
    /\ conn = [privateData |-> <<>>]
    /\ openFds = {}
    /\ initialised = FALSE
    /\ serials = <<>>
    /\ earlier = NoneEarlier
    /\ nops = 0
    /\ op \in {[name |-> "uri",
                u |-> Uri(TRUE, TRUE, q, <<>>, <<(<<"h">>)>>, n, <<"/", "s">>, <<>>)] :
                   q \in PortSchemes, n \in Ports}

\* if (uri->port != 0) ... else port = NULL;
OpenPort ==
    /\ op.name = "uri"
    /\ LET transport == transport_of(get_transport_from_scheme(op.u.scheme))
       IN  op' = [name |-> "port", u |-> op.u, transport |-> transport,
                  port |-> open_port(op.u, transport)]
    /\ UNCHANGED <<conn, openFds, initialised, serials, earlier, nops>>

NextPort == OpenPort

SpecPort == InitPort /\ [][NextPort]_vars

(***************************************************************************)
(* remoteDomainGetVcpus with sizes of the whole range of int.  The product *)
(* maxinfo * maplen is an int: where it overflows, which is undefined, it  *)
(* is the product kept to 32 bits or, in a build that compares before it   *)
(* narrows, a value beyond every ceiling.                                  *)
(***************************************************************************)
VcpuSizes ==
    {INT_MIN, -1073741824, -65536, -2, -1, 0, 1, 2, 3, 65536, 1073741824,
     INT_MAX}

ProductOverflowResults(a, b) == {wrapped_product(a, b), INT_MAX}

RemoteDomainGetVcpusOfAnySize ==
    /\ nops = 0
    /\ \E maxinfo \in VcpuSizes, maplen \in VcpuSizes,
          e \in StubCallEnvs(Priv, "REMOTE_PROC_DOMAIN_GET_VCPUS") :
         \E ub \in (IF product_overflows(maxinfo, maplen)
                     THEN ProductOverflowResults(maxinfo, maplen) ELSE {0}) :
            Stubbed("remoteDomainGetVcpus", maxinfo, maplen,
                    StubEnv(e, 0, 0, 0, FALSE, FALSE),
                    remoteDomainGetVcpus(Priv, openFds,
                                         StubEnv(e, 0, 0, 0, FALSE, FALSE),
                                         maxinfo, maplen, ub))

NextVcpus == RemoteDomainGetVcpusOfAnySize

SpecVcpus == InitStubs /\ [][NextVcpus]_vars

(***************************************************************************)
(* What is observed of the last operation                                  *)
(***************************************************************************)
DriverOps == {"remoteClose", "remoteType", "remoteVersion"}

\* The calls the last operation made.
LastCalls == {op.calls[i] : i \in DOMAIN op.calls}

ClosedHandleError ==
    RaisedError(TRUE, "VIR_ERR_INVALID_ARG",
                "tried to use a closed or uninitialised handle")

\* The call raised one error, of code Rpc, produced locally.
LocalRpcError(c) ==
    /\ Len(c.errs) = 1
    /\ c.errs[1].code = "VIR_ERR_RPC"
    /\ c.errs[1].info # "server_error"

\* The length word of the reply was read.
LengthWordRead(c) == Len(c.io) >= 3 /\ c.io[3].ok
LengthWord(c) == xdr_int_decode(c.io[3].data)

\* The reply was read to its end and holds a header.
Received(c) == Len(c.io) = 4 /\ c.io[4].ok /\ c.io[4].len >= HEADER_LEN

HeaderDiffers(c) ==
    \/ c.reply.hdr.prog # REMOTE_PROGRAM
    \/ c.reply.hdr.vers # REMOTE_PROTOCOL_VERSION
    \/ c.reply.hdr.proc # c.proc
    \/ c.reply.hdr.direction # REMOTE_REPLY
    \/ c.reply.hdr.serial # c.serial

Validated(c) == Received(c) /\ ~HeaderDiffers(c)

FramingFaults ==
    {"packet received from server too large",
     "xdr_remote_message_header (reply)", "socket closed unexpectedly",
     "unknown program", "unknown protocol version", "unknown procedure",
     "unknown direction", "unknown serial"}

FramingFault(c) ==
    c.ret = -1 /\ LocalRpcError(c) /\ c.errs[1].info \in FramingFaults

(***************************************************************************)
(* Claims                                                                  *)
(***************************************************************************)
\* C1: a driver operation invoked on a connection that has been closed
\* returns its failure value with the InvalidArg closed-handle error and
\* leaves the connection untouched: it makes no call, so that nothing is
\* written to or read from the channel, and the counter is unchanged.
C1_ClosedRejectsOperations ==
    (op.name \in DriverOps /\ ~op.chanWasOpen) =>
        /\ op.ret \in {"-1", "NULL"}
        /\ op.errs = <<ClosedHandleError>>
        /\ op.calls = <<>>
        /\ Priv = op.before[1]

\* C2: remoteClose on an open connection attempts all its steps, also when
\* the close call fails: the TLS session (if any) is told bye, the socket is
\* closed, the cached type is freed, and the failure of the call is reported.
C2_CloseAttemptsAllSteps ==
    (op.name = "remoteClose" /\ op.chanWasOpen) =>
        /\ op.closes = <<op.before[1].sock>>
        /\ op.before[1].sock \notin openFds
        /\ op.before[1].uses_tls => op.bye
        /\ Priv.type \in {"NULL", "freed"}
        /\ op.calls[1].ret = -1 => op.ret = "-1"

\* C3: a call whose reply header differs from the expected one in program,
\* version, procedure, direction or serial fails with an Rpc error, and
\* ret_filter is not invoked on that reply.
C3_HeaderMismatchFails ==
    \A c \in LastCalls :
        (Received(c) /\ HeaderDiffers(c)) =>
            c.ret = -1 /\ LocalRpcError(c) /\ ~c.ret_filter

\* A reply to a call that is right in all but the serial, and is refused.
C3_Witness ==
    \E c \in LastCalls :
        /\ Received(c)
        /\ c.reply.hdr = [GoodHeader(c.proc, c.serial) EXCEPT
                              !.serial = c.reply.hdr.serial]
        /\ c.reply.hdr.serial # c.serial
        /\ c.reply.hdr.status = REMOTE_OK
        /\ c.retVoid \/ c.reply.retOk
        /\ c.ret = -1

\* C4: on one connection the counter starts at 0 and the k-th call, the
\* open call being call 0, is assigned serial k, whether the calls before
\* it succeeded or failed.
C4_SerialsDense ==
    /\ \A i \in DOMAIN serials : serials[i].serial = i - 1
    /\ Installed => Priv.counter = Len(serials)

\* Three calls, the second of which failed.
C4_Witness ==
    /\ Len(serials) = 3
    /\ serials[1].ret = 0
    /\ serials[2].ret = -1
    /\ serials[3].serial = 2

\* C5: no two calls on one connection are assigned the same serial, however
\* many calls the connection has made.
C5_SerialsUnique ==
    /\ \A i, j \in DOMAIN serials :
         i # j => serials[i].serial # serials[j].serial
    /\ \A i \in DOMAIN serials : ~EarlierAssigned(serials[i].serial)

C7_FramingFaultCloses ==
    (op.name \in DriverOps /\ \E c \in LastCalls : FramingFault(c)) =>
        Priv.magic = DEAD

\* C8: remoteOpen installs the private data, with magic = MAGIC, only after
\* the open call succeeded, and returns success iff it installed it; when
\* the open call fails it returns error, installs nothing and closes the
\* channel.
C8_OpenInstallsAfterOpenCall ==
    op.name = "remoteOpen" =>
        /\ op.ret = VIR_DRV_OPEN_SUCCESS <=> Installed
        /\ Installed =>
             /\ Priv.magic = MAGIC
             /\ Len(op.calls) = 1
             /\ op.calls[1].proc = "REMOTE_PROC_OPEN"
             /\ op.calls[1].ret = 0
             /\ ChanOpen(Priv)
        /\ (op.calls # <<>> /\ op.calls[1].ret = -1) =>
             /\ op.ret = VIR_DRV_OPEN_ERROR
             /\ ~Installed
             /\ op.closes # <<>>
             /\ openFds = {}

\* An open whose open call the server answered with an error.
C8_Witness ==
    /\ op.name = "remoteOpen"
    /\ op.calls # <<>>
    /\ op.calls[1].ret = -1
    /\ Len(op.calls[1].errs) = 1
    /\ op.calls[1].errs[1].info = "server_error"
    /\ ~Installed

\* C9, as stated: for a reply whose header passes validation, status OK runs
\* ret_filter and the call succeeds iff it decodes (else Rpc "unmarshalling
\* ret"); status ERROR raises the decoded error record as a server error and
\* the call fails; any other status fails with Rpc "unknown status".
C9_StatusDetermines ==
    \A c \in LastCalls :
        Validated(c) =>
            CASE c.reply.hdr.status = REMOTE_OK ->
                   /\ c.ret_filter
                   /\ c.ret = 0 <=> (c.retVoid \/ c.reply.retOk)
                   /\ c.ret # 0 =>
                        /\ c.ret = -1
                        /\ c.errs = <<RaisedError(~c.in_open, "VIR_ERR_RPC",
                                                  "unmarshalling ret")>>
              [] c.reply.hdr.status = REMOTE_ERROR ->
                   /\ c.ret = -1
                   /\ ~c.ret_filter
                   /\ c.errs = <<RaisedError(~c.in_open, c.reply.rerror,
                                             "server_error")>>
              [] OTHER ->
                   /\ c.ret = -1
                   /\ ~c.ret_filter
                   /\ c.errs = <<RaisedError(~c.in_open, "VIR_ERR_RPC",
                                             "unknown status")>>

\* C9, amended: as stated, but with status ERROR the error record is raised
\* as a server error only when it decodes; when it does not, the call fails
\* with Rpc "unmarshalling remote_error".
C9_StatusAndDecoding ==
    \A c \in LastCalls :
        Validated(c) =>
            CASE c.reply.hdr.status = REMOTE_OK ->
                   /\ c.ret_filter
                   /\ c.ret = 0 <=> (c.retVoid \/ c.reply.retOk)
                   /\ c.ret # 0 =>
                        /\ c.ret = -1
                        /\ c.errs = <<RaisedError(~c.in_open, "VIR_ERR_RPC",
                                                  "unmarshalling ret")>>
              [] c.reply.hdr.status = REMOTE_ERROR ->
                   /\ c.ret = -1
                   /\ ~c.ret_filter
                   /\ c.errs = IF c.reply.errOk
                               THEN <<RaisedError(~c.in_open, c.reply.rerror,
                                                  "server_error")>>
                               ELSE <<RaisedError(~c.in_open, "VIR_ERR_RPC",
                                                  "unmarshalling remote_error")>>
              [] OTHER ->
                   /\ c.ret = -1
                   /\ ~c.ret_filter
                   /\ c.errs = <<RaisedError(~c.in_open, "VIR_ERR_RPC",
                                             "unknown status")>>

\* A validated reply of status ERROR whose error record does not decode.
C9_Witness ==
    \E c \in LastCalls :
        /\ Validated(c)
        /\ c.reply.hdr.status = REMOTE_ERROR
        /\ ~c.reply.errOk
        /\ c.ret = -1

\* C10: of every request sent, the 4-byte length word is written before the
\* body, its value is 4 plus the bytes encoded for header and arguments, and
\* the bytes written for the frame add up to that value.
C10_LengthSelfInclusive ==
    \A c \in LastCalls :
        c.io # <<>> =>
            /\ c.io[1].fn = "really_write"
            /\ c.io[1].buf = "buffer2"
            /\ c.io[1].len = 4
            /\ c.encoded >= HEADER_LEN
            /\ c.proc # "REMOTE_PROC_OPEN" => c.encoded = HEADER_LEN
            /\ xdr_int_decode(c.io[1].data) = 4 + c.encoded
            /\ Len(c.io) >= 2 =>
                 /\ c.io[1].ok
                 /\ c.io[1].n = 4
                 /\ c.io[2].fn = "really_write"
                 /\ c.io[2].buf = "buffer"
                 /\ c.io[2].len = c.encoded
                 /\ c.io[2].ok =>
                      c.io[1].n + c.io[2].n = xdr_int_decode(c.io[1].data)

\* An open call, with arguments, whose frame was written in full.
C10_Witness ==
    \E c \in LastCalls :
        /\ c.proc = "REMOTE_PROC_OPEN"
        /\ c.encoded > HEADER_LEN
        /\ Len(c.io) >= 2
        /\ c.io[2].ok

(***************************************************************************)
(* What is observed of remoteOpen                                          *)
(***************************************************************************)
\* remoteOpen got as far as trying the addresses getaddrinfo returned.
TcpDialled ==
    /\ op.name = "remoteOpen"
    /\ op.did.transport \in {"trans_tls", "trans_tcp"}
    /\ op.did.transport = "trans_tls" => initialised
    /\ op.d.gai

\* The address lets a connection (for TLS: a session) be set up.
AddressSucceeds(a) ==
    IF op.did.transport = "trans_tls"
    THEN a = "connected" \/ (a = "verify_fails" /\ op.did.x.no_verify # 0)
    ELSE a \notin {"socket_fails", "connect_fails"}

\* The number of addresses to try: up to the first that succeeds.
AddressesToTry ==
    IF \E i \in DOMAIN op.d.addrs : AddressSucceeds(op.d.addrs[i])
    THEN CHOOSE i \in DOMAIN op.d.addrs :
           /\ AddressSucceeds(op.d.addrs[i])
           /\ \A j \in 1..(i - 1) : ~AddressSucceeds(op.d.addrs[j])
    ELSE Len(op.d.addrs)

\* The attempts that created a socket and failed, in order.
ClosedInLoop ==
    SelectSeq(op.did.attempts,
              LAMBDA t : t.fd >= 0 /\ ~AddressSucceeds(t.outcome))

\* C11: for the Tcp and Tls transports the resolved addresses are tried in
\* order up to the first that succeeds; the socket of every address that
\* fails is closed; the open call is made on the first address that
\* succeeds, and remoteOpen fails without it when none does.
C11_AddressesInOrder ==
    TcpDialled =>
        /\ Len(op.did.attempts) = AddressesToTry
        /\ \A i \in DOMAIN op.did.attempts :
             /\ op.did.attempts[i].index = i
             /\ op.did.attempts[i].outcome = op.d.addrs[i]
        /\ Len(ClosedInLoop) <= Len(op.closes)
        /\ \A j \in DOMAIN ClosedInLoop : op.closes[j] = ClosedInLoop[j].fd
        /\ (\E i \in DOMAIN op.d.addrs : AddressSucceeds(op.d.addrs[i])) <=>
             op.calls # <<>>
        /\ op.calls = <<>> => op.ret = VIR_DRV_OPEN_ERROR

\* Two addresses: the first is connected to and fails, the second succeeds.
C11_Witness ==
    /\ TcpDialled
    /\ Len(op.did.attempts) = 2
    /\ op.did.attempts[1].fd >= 0
    /\ ~AddressSucceeds(op.d.addrs[1])
    /\ op.ret = VIR_DRV_OPEN_SUCCESS

\* C12: when remoteOpen fails, every descriptor it created (sockets, both
\* ends of the socket pair) is closed when it returns.
C12_NoDescriptorLeft ==
    (op.name = "remoteOpen" /\ op.ret # VIR_DRV_OPEN_SUCCESS) => openFds = {}

\* The URI as the caller wrote it: whether its scheme has a '+', what
\* follows the first '+', and a string in lower case.
HasSuffix(u) == \E i \in DOMAIN u.scheme : u.scheme[i] = "+"

SuffixStart(u) ==
    CHOOSE i \in DOMAIN u.scheme :
        u.scheme[i] = "+" /\ \A j \in 1..(i - 1) : u.scheme[j] # "+"

Suffix(u) == SubSeq(u.scheme, SuffixStart(u) + 1, Len(u.scheme))

Lowered(s) == [i \in 1..Len(s) |-> ToLower(s[i])]

\* The URI is one remoteOpen takes on.
Accepted(u) ==
    /\ u.given
    /\ u.parsed
    /\ u.scheme # <<>>
    /\ HasSuffix(u) \/ u.server # <<>>

\* The transport the suffix names; "" when it names none.
NamedTransport(u) ==
    IF ~HasSuffix(u) THEN "trans_tls"
    ELSE CASE Lowered(Suffix(u)) = <<"t", "l", "s">> -> "trans_tls"
           [] Lowered(Suffix(u)) = <<"t", "c", "p">> -> "trans_tcp"
           [] Lowered(Suffix(u)) = <<"u", "n", "i", "x">> -> "trans_unix"
           [] Lowered(Suffix(u)) = <<"s", "s", "h">> -> "trans_ssh"
           [] Lowered(Suffix(u)) = <<"e", "x", "t">> -> "trans_ext"
           [] OTHER -> ""

\* Nothing was created: no socket, no process, no call.
NothingCreated ==
    /\ openFds = {}
    /\ op.closes = <<>>
    /\ op.calls = <<>>
    /\ op.did.attempts = <<>>
    /\ op.did.spawned = <<>>

\* C13: for a URI that is not declined the transport is the one the scheme's
\* suffix names, whatever the case of its letters, and tls without a suffix;
\* any other suffix, the empty one included, makes remoteOpen return
\* VIR_DRV_OPEN_ERROR with one VIR_ERR_INVALID_ARG before anything is created.
C13_TransportFromSuffix ==
    (op.name = "remoteOpen" /\ Accepted(op.u)) =>
        IF NamedTransport(op.u) # ""
        THEN op.did.transport = NamedTransport(op.u)
        ELSE /\ op.ret = VIR_DRV_OPEN_ERROR
             /\ Len(op.errs) = 1
             /\ op.errs[1].code = "VIR_ERR_INVALID_ARG"
             /\ NothingCreated
             /\ conn.privateData = <<>>

\* A suffix in mixed case chose the tcp transport and the open succeeded.
C13_Witness ==
    /\ op.name = "remoteOpen"
    /\ HasSuffix(op.u)
    /\ Suffix(op.u) = <<"T", "c", "P">>
    /\ op.did.transport = "trans_tcp"
    /\ op.ret = VIR_DRV_OPEN_SUCCESS

\* C14: remoteOpen returns VIR_DRV_OPEN_DECLINED exactly when the URI is
\* absent, does not parse, has no scheme, or has neither a transport suffix
\* nor a server; then no error is raised, nothing is created and the
\* handle's private data is left alone.
C14_DeclineExactly ==
    op.name = "remoteOpen" =>
        /\ (op.ret = VIR_DRV_OPEN_DECLINED) <=> ~Accepted(op.u)
        /\ op.ret = VIR_DRV_OPEN_DECLINED =>
             /\ op.errs = <<>>
             /\ NothingCreated
             /\ ~op.bye
             /\ conn.privateData = <<>>

\* A URI with a scheme, without suffix and without server, was declined.
C14_Witness ==
    /\ op.name = "remoteOpen"
    /\ op.u.given /\ op.u.parsed
    /\ op.u.scheme = <<"q">>
    /\ op.u.server = <<>>
    /\ op.ret = VIR_DRV_OPEN_DECLINED

\* remoteOpen spawned the ssh program.
SshSpawned ==
    /\ op.name = "remoteOpen"
    /\ op.did.transport = "trans_ssh"
    /\ op.did.spawned # <<>>

\* The arguments after the program name that the URI asks for.
SshArguments(u, x) ==
    <<(<<"-", "p">>), IF u.port # 0 THEN asprintf_d(u.port) ELSE <<"2", "2">>>>
    \o (IF u.user # <<>> THEN <<(<<"-", "l">>), u.user[1]>> ELSE <<>>)
    \o <<open_server(u),
         IF x.netcat # <<>> THEN x.netcat[1] ELSE <<"n", "c">>,
         <<"-", "U">>,
         IF x.sockname # <<>> THEN x.sockname[1] ELSE <<"LIBVIRTD_UNIX_SOCKET">>>>

\* C15: for every accepted ssh URI the arguments after the program name are
\* -p, the port, then -l and the user exactly when the URI has a user, the
\* host, the netcat parameter or nc, -U, and the socket parameter or the
\* default socket path, with an explicit port as with the default port 22.
C15_SshArgv ==
    SshSpawned => Tail(op.did.spawned[1]) = SshArguments(op.u, op.did.x)

(***************************************************************************)
(* What is observed of the query string                                    *)
(***************************************************************************)
\* Names and values of the fields, in order.
Pairs(fields) ==
    [i \in 1..Len(fields) |-> <<fields[i].name, fields[i].value>>]

\* The field a section of the query string stands for: none for a section
\* that is empty or begins with '=', else the name before the first '=' and
\* the value after it.
SectionPairs(section) ==
    IF section = <<>> \/ section[1] = "=" THEN <<>>
    ELSE <<(<<unescape(SubSeq(section, 1, FirstIndex(section, "=") - 1)),
              unescape(SubSeq(section, FirstIndex(section, "=") + 1,
                              Len(section)))>>)>>

\* The fields of a query text, section by section.
RECURSIVE TextPairs(_)
TextPairs(text) ==
    IF text = <<>> THEN <<>>
    ELSE SectionPairs(SubSeq(text, 1, FirstIndex(text, "&") - 1))
         \o TextPairs(SubSeq(text, FirstIndex(text, "&") + 1, Len(text)))

\* C16: query_parse yields, in input order, no field for a section that is
\* empty or begins with '=' (the bare section "=" included), (n, "") for a
\* section n or n=, and (n, v) for a section n=v.
C16_ParseBySections ==
    op.name = "query_parse" =>
        Pairs(op.vars) = (IF op.query = <<>> THEN <<>> ELSE TextPairs(op.query[1]))

\* The name is one of those remoteOpen extracts.
Reserved(name) ==
    Lowered(name) \in {<<"n", "a", "m", "e">>,
                       <<"c", "o", "m", "m", "a", "n", "d">>,
                       <<"s", "o", "c", "k", "e", "t">>,
                       <<"n", "e", "t", "c", "a", "t">>,
                       <<"n", "o", "_", "v", "e", "r", "i", "f", "y">>}

PassedOn(fields) == SelectSeq(fields, LAMBDA f : ~Reserved(f.name))

\* C17: parsing the query, marking the extracted keys as ignored,
\* re-serialising with query_create and parsing the result again yields the
\* fields of the query that are not extracted, with the same values in the
\* same order.
C17_RoundTrip ==
    op.name = "query_create" =>
        Pairs(query_parse(op.rebuilt)) = Pairs(PassedOn(op.vars))

\* A query with an extracted key and a value that needs escaping was rebuilt.
C17_Witness ==
    /\ op.name = "query_create"
    /\ op.query = <<(<<"n", "a", "m", "e", "=", "x", "&",
                       "a", "=", "%", "2", "6">>)>>
    /\ op.rebuilt = <<(<<"a", "=", "%", "2", "6">>)>>

(***************************************************************************)
(* What is observed of the name sent to the server                         *)
(***************************************************************************)
\* remoteOpen made the open call: op.did.name is the name in its arguments.
OpenCallMade ==
    /\ op.name = "remoteOpen"
    /\ op.calls # <<>>
    /\ op.did.name # <<>>

\* The fields of the URI's query that carry the name parameter.
NameFields(u) ==
    SelectSeq(query_parse(u.query), LAMBDA f : Lowered(f.name) = <<"n", "a", "m", "e">>)

\* The scheme without the transport suffix.
BaseScheme(u) ==
    IF HasSuffix(u) THEN SubSeq(u.scheme, 1, SuffixStart(u) - 1) ELSE u.scheme

\* The URI without transport suffix, user, host, port and query.
StrippedUri(u) == BaseScheme(u) \o <<":", "/", "/">> \o u.path

\* name is the stripped URI with the fields passed on attached as its query.
StrippedWithQuery(name, u) ==
    /\ Len(name) >= Len(StrippedUri(u))
    /\ SubSeq(name, 1, Len(StrippedUri(u))) = StrippedUri(u)
    /\ LET rest == SubSeq(name, Len(StrippedUri(u)) + 1, Len(name))
       IN  IF rest = <<>> THEN PassedOn(query_parse(u.query)) = <<>>
           ELSE /\ rest[1] = "?"
                /\ Pairs(query_parse(<<Tail(rest)>>))
                     = Pairs(PassedOn(query_parse(u.query)))

\* C18: the name sent in the open call is the value of the name parameter
\* when the query has one; otherwise the URI with the transport suffix,
\* user, host and port removed and the rebuilt query attached.
C18_ForwardedName ==
    OpenCallMade =>
        IF NameFields(op.u) # <<>>
        THEN op.did.name[1] = NameFields(op.u)[Len(NameFields(op.u))].value
        ELSE StrippedWithQuery(op.did.name[1], op.u)

\* q+TcP://h/s was forwarded as q:///s.
C18_Witness ==
    /\ OpenCallMade
    /\ HasSuffix(op.u)
    /\ op.u.server = <<(<<"h">>)>>
    /\ op.u.query = <<>>
    /\ op.did.name[1] = <<"q", ":", "/", "/", "/", "s">>
    /\ op.ret = VIR_DRV_OPEN_SUCCESS

\* C19: each field of the URI's query that is not extracted appears, with its
\* value, in the name sent in the open call, also when the URI has a name
\* parameter.
C19_OtherKeysPassThrough ==
    (OpenCallMade /\ PassedOn(query_parse(op.u.query)) # <<>>) =>
        \E i \in 1..Len(op.did.name[1]) :
            /\ op.did.name[1][i] = "?"
            /\ \A j \in 1..(i - 1) : op.did.name[1][j] # "?"
            /\ Pairs(query_parse(<<SubSeq(op.did.name[1], i + 1,
                                          Len(op.did.name[1]))>>))
                 = Pairs(PassedOn(query_parse(op.u.query)))

(***************************************************************************)
(* What is observed of the certificate check                               *)
(***************************************************************************)
\* The fields of the URI's query that carry no_verify, and its value: 0
\* when there is none.
NoVerifyFields(u) ==
    SelectSeq(query_parse(u.query),
              LAMBDA f : Lowered(f.name)
                           = <<"n", "o", "_", "v", "e", "r", "i", "f", "y">>)

NoVerifyOf(u) ==
    IF NoVerifyFields(u) = <<>> THEN 0
    ELSE atoi(NoVerifyFields(u)[Len(NoVerifyFields(u))].value)

\* C20: at an address where the handshake succeeds and the peer's
\* certificate does not verify, the bring-up goes on (and here succeeds)
\* exactly when the URI's no_verify is not 0; with no_verify absent or 0 the
\* socket is closed, and remoteOpen fails when no other address succeeds.
C20_NoVerifyBypass ==
    (TcpDialled /\ op.did.transport = "trans_tls") =>
        \A i \in DOMAIN op.did.attempts :
            op.did.attempts[i].outcome = "verify_fails" =>
                IF NoVerifyOf(op.u) # 0
                THEN /\ i = Len(op.did.attempts)
                     /\ op.calls # <<>>
                     /\ op.ret = VIR_DRV_OPEN_SUCCESS =>
                          op.did.attempts[i].fd \in openFds
                ELSE /\ \E j \in DOMAIN op.closes :
                          op.closes[j] = op.did.attempts[i].fd
                     /\ i = Len(op.did.attempts) =>
                          /\ op.calls = <<>>
                          /\ op.ret = VIR_DRV_OPEN_ERROR
                          /\ conn.privateData = <<>>

\* With no_verify=1 the only address had a certificate that does not verify
\* and the open succeeded.
C20_Witness ==
    /\ TcpDialled
    /\ op.did.transport = "trans_tls"
    /\ NoVerifyOf(op.u) = 1
    /\ op.d.addrs = <<"verify_fails">>
    /\ op.ret = VIR_DRV_OPEN_SUCCESS
    /\ conn.privateData # <<>>

(***************************************************************************)
(* What is observed of the TLS bring-up                                    *)
(***************************************************************************)
\* The return of gnutls_record_recv that ended the wait for the server's
\* byte.
LastRecv == op.t.recv[first_not_retried(op.t.recv, 1)]

\* C21: a session is returned only after one byte was read from it and the
\* byte is 1; any other byte, the end of the stream or a read failure that
\* is not retried makes the bring-up fail, whatever no_verify is.
C21_AcknowledgementRequired ==
    op.name = "negotiate_gnutls_on_connection" =>
        /\ op.r.session # "NULL" =>
             /\ op.r.reads >= 1
             /\ LastRecv.len = 1
             /\ LastRecv.byte = 1
        /\ (op.r.reads >= 1 /\ (LastRecv.len # 1 \/ LastRecv.byte # 1)) =>
             /\ op.r.session = "NULL"
             /\ op.r.errs # <<>>
        /\ \A i \in 1..(op.r.reads - 1) : IsRetried(op.t.recv[i])

\* With no_verify set and a certificate that has expired, the server's byte
\* was 0 and no session was returned.
C21_Witness ==
    /\ op.name = "negotiate_gnutls_on_connection"
    /\ op.no_verify = 1
    /\ op.t.cert.chain = <<Cert(TRUE, 1, 1, TRUE)>>
    /\ op.r.reads = 2
    /\ LastRecv = Returned(1, "", 0)
    /\ op.r.session = "NULL"

\* What the claim asks of the certificates: nothing reported against the
\* peer, type X.509, a chain, every certificate of it valid now, and the
\* leaf matching the hostname.
CertificateAcceptable(c) ==
    /\ c.status = {}
    /\ c.type = "GNUTLS_CRT_X509"
    /\ c.chain # <<>>
    /\ \A i \in DOMAIN c.chain :
         c.chain[i].activation <= c.time /\ c.time <= c.chain[i].expiration
    /\ c.chain[1].hostname

\* The library calls themselves succeed: the verification, time(), and the
\* import of every certificate.
LibraryCallsSucceed(c) ==
    /\ c.peers2 >= 0
    /\ c.time # -1
    /\ \A i \in DOMAIN c.chain : c.chain[i].import

\* C22: verify_certificate succeeds exactly when no status flag is reported,
\* the type is X.509, there is a chain, every certificate of the chain has
\* activation <= now <= expiration, and the leaf matches the hostname; the
\* hostname of the other certificates is not looked at.
C22_VerifyCertificate ==
    (op.name = "verify_certificate" /\ LibraryCallsSucceed(op.t.cert)) =>
        /\ (op.r.ret = 0) <=> CertificateAcceptable(op.t.cert)
        /\ op.r.ret # 0 => op.r.ret = -1 /\ Len(op.r.errs) = 1

\* A chain of two was accepted whose leaf expires now and whose second
\* certificate becomes active now and does not match the hostname.
C22_Witness ==
    /\ op.name = "verify_certificate"
    /\ op.t.cert.chain = <<Cert(TRUE, 1, 2, TRUE), Cert(TRUE, 2, 3, FALSE)>>
    /\ op.r.ret = 0

(***************************************************************************)
(* What is observed of two threads in initialise_gnutls                    *)
(***************************************************************************)
\* The thread is between the allocation of the credentials and the
\* assignment to the flag.
Initialising(t) ==
    op.pc[t] \in {"set_x509_trust_file", "set_x509_key_file", "initialised = 1"}

\* C23: the credentials are allocated and loaded at most once in the
\* process, whatever the interleaving of two threads in initialise_gnutls,
\* and no thread uses the credentials while the other is initialising them.
C23_InitialisedOnce ==
    op.name = "threads" =>
        /\ op.cred.alloc <= 1
        /\ \A t, u \in Threads :
             ~(op.pc[t] = "negotiate" /\ Initialising(u))

(***************************************************************************)
(* What is observed of the cached type                                     *)
(***************************************************************************)
\* The last operation was invoked on a connection that was open.
OnOpenConnection ==
    /\ op.name \in {"remoteClose", "remoteType", "remoteVersion"}
    /\ op.chanWasOpen
    /\ op.before[1].type # "freed"

\* C24: on an open connection the first remoteType that succeeds stores the
\* type; a later remoteType returns the stored type without a call and
\* without taking a serial; a remoteType that fails leaves nothing stored;
\* no operation but a successful close changes what is stored.
C24_TypeCached ==
    OnOpenConnection =>
        /\ (op.name = "remoteType" /\ op.before[1].type # "NULL") =>
             /\ op.ret = op.before[1].type
             /\ op.calls = <<>>
             /\ Priv = op.before[1]
        /\ (op.name = "remoteType" /\ op.before[1].type = "NULL") =>
             /\ Len(op.calls) = 1
             /\ Priv.counter # op.before[1].counter
             /\ IF op.calls[1].ret = 0
                THEN op.ret = "type" /\ Priv.type = "type"
                ELSE op.ret = "NULL" /\ Priv.type = "NULL"
        /\ (op.name = "remoteVersion" \/ op.ret = "-1") =>
             Priv.type = op.before[1].type

\* remoteType found the type stored by an earlier remoteType.
C24_Witness ==
    /\ OnOpenConnection
    /\ op.name = "remoteType"
    /\ op.before[1].type = "type"
    /\ op.ret = "type"
    /\ op.calls = <<>>
    /\ Len(serials) = 2

(***************************************************************************)
(* The stubs that take or return arrays                                    *)
(***************************************************************************)
SizedStubs ==
    {"remoteListDomains", "remoteListDefinedDomains", "remoteListNetworks",
     "remoteListDefinedNetworks", "remoteDomainPinVcpu", "remoteDomainGetVcpus",
     "remoteDomainGetSchedulerParameters", "remoteDomainSetSchedulerParameters"}

\* The protocol's ceiling on the array the last stub takes or returns.
Ceiling ==
    CASE op.name = "remoteListDomains" -> REMOTE_DOMAIN_ID_LIST_MAX
      [] op.name = "remoteListDefinedDomains" -> REMOTE_DOMAIN_NAME_LIST_MAX
      [] op.name \in {"remoteListNetworks", "remoteListDefinedNetworks"} ->
             REMOTE_NETWORK_NAME_LIST_MAX
      [] op.name = "remoteDomainPinVcpu" -> REMOTE_CPUMAP_MAX
      [] op.name = "remoteDomainGetVcpus" -> REMOTE_VCPUINFO_MAX
      [] OTHER -> REMOTE_DOMAIN_SCHEDULER_PARAMETERS_MAX

\* The size the caller supplied to the last stub exceeds the protocol's
\* maximum.
Oversized ==
    \/ op.max > Ceiling
    \/ /\ op.name = "remoteDomainGetVcpus"
       /\ op.max * op.maplen > REMOTE_CPUMAPS_MAX

RpcErrorRaised ==
    \E i \in 1..Len(op.errs) : op.errs[i].code = "VIR_ERR_RPC"

\* The last operation has not invoked really_write or really_read.
NoTraffic == \A i \in 1..Len(op.calls) : op.calls[i].io = <<>>

\* C25: a stub that takes a caller-supplied list or buffer size fails with an
\* Rpc error and writes no byte on the socket when the size exceeds the
\* protocol's maximum.
C25_OversizeRejectedLocally ==
    (op.name \in SizedStubs /\ Oversized) =>
        /\ op.ret = -1
        /\ RpcErrorRaised
        /\ NoTraffic

ListStubs ==
    {"remoteListDomains", "remoteListDefinedDomains", "remoteListNetworks",
     "remoteListDefinedNetworks", "remoteDomainGetVcpus",
     "remoteDomainGetSchedulerParameters"}

\* The call of the last stub has returned a decoded reply.
ReplyDecoded == op.calls # <<>> /\ op.calls[1].ret = 0

\* The reply declares more elements than the caller's bound or the ceiling.
DeclaresTooMany ==
    \/ op.len > op.max
    \/ op.len > Ceiling
    \/ /\ op.name = "remoteDomainGetVcpus"
       /\ (op.len2 > op.max * op.maplen \/ op.len2 > REMOTE_CPUMAPS_MAX)

\* The count the last stub hands back: its return value, or *nparams.
ReturnedCount ==
    IF op.name = "remoteDomainGetSchedulerParameters" THEN op.nparams
    ELSE op.ret

\* C26: a list-returning stub whose reply declares more elements than the
\* caller's bound or the protocol's ceiling fails with an Rpc error, releases
\* the decoded reply and copies no element; a stub that succeeds has copied
\* as many elements as it returns, and no more than the caller's bound.
C26_ReplyLengthChecked ==
    (op.name \in ListStubs /\ ReplyDecoded) =>
        /\ DeclaresTooMany =>
               /\ op.ret = -1
               /\ RpcErrorRaised
               /\ op.freed
               /\ op.copied = 0
        /\ op.ret # -1 =>
               /\ op.copied = ReturnedCount
               /\ op.copied <= op.max

C26_Witness ==
    /\ op.name = "remoteListDefinedDomains"
    /\ ReplyDecoded
    /\ op.len = op.max + 1
    /\ op.len <= Ceiling
    /\ op.ret = -1
    /\ op.freed
    /\ op.copied = 0

(***************************************************************************)
(* Calls that follow a failed call                                         *)
(***************************************************************************)
\* The last operation, on an installed connection, ended in a call that
\* failed on a reply which passed the checks of the header, has status Error
\* and holds a remote_error that decodes.
FailedOnErrorReply ==
    /\ op.name \in DriverOps
    /\ op.calls # <<>>
    /\ op.calls[Len(op.calls)].ret = -1
    /\ Validated(op.calls[Len(op.calls)])
    /\ op.calls[Len(op.calls)].reply.hdr.status = REMOTE_ERROR
    /\ op.calls[Len(op.calls)].reply.errOk

\* The length word and as many bytes as it announces were read.
FrameConsumed(c) ==
    /\ Received(c)
    /\ c.io[3].n = 4
    /\ c.io[4].n = LengthWord(c) - 4

\* Every write and read of the call went through and the reply is the one
\* expected for its procedure and serial.
AnsweredCorrectly(c) ==
    /\ \A i \in 1..Len(c.io) : c.io[i].ok
    /\ c.reply = GoodReply(c.proc, c.serial)

\* C27: after a call that failed on a well-formed reply of status Error the
\* connection is open and the reply is consumed to its end; the next call on
\* the connection carries the next serial and succeeds if it is answered
\* correctly.
C27_ErrorReplyKeepsConnection ==
    [][FailedOnErrorReply =>
         /\ Installed /\ Priv.magic = MAGIC /\ ChanOpen(Priv)
         /\ FrameConsumed(op.calls[Len(op.calls)])
         /\ op'.calls # <<>> =>
              /\ op'.calls[1].serial = op.calls[Len(op.calls)].serial + 1
              /\ AnsweredCorrectly(op'.calls[1]) => op'.calls[1].ret = 0]_vars

C27_Witness ==
    /\ FailedOnErrorReply
    /\ nops < MaxOps
    /\ ChanOpen(Priv)
    /\ op.name = "remoteClose"

(***************************************************************************)
(* A spawned command that exits at once                                    *)
(***************************************************************************)
\* remoteOpen has returned VIR_DRV_OPEN_ERROR with an error of kind Rpc or
\* SystemError.
OpenFailedWithRpcOrSystemError ==
    /\ op.pc = "returned"
    /\ op.ret = VIR_DRV_OPEN_ERROR
    /\ Len(op.errs) = 1
    /\ op.errs[1].code \in {"VIR_ERR_RPC", "VIR_ERR_SYSTEM_ERROR"}

\* C28: over the ext or ssh transport, when the spawned child exits without
\* a reply, remoteOpen eventually returns Error with an error of kind Rpc or
\* SystemError.
C28_DeadChildFailsOpen == <>OpenFailedWithRpcOrSystemError

(***************************************************************************)
(* Two tasks on one connection                                             *)
(***************************************************************************)
\* Task t has returned success from call().
Succeeded(t) == op.name = "call" /\ op.pc[t] = "return" /\ op.ret[t] = 0

\* C29: of two calls made at the same time on one connection by two tasks,
\* one that returns success has a serial of its own and has consumed the
\* reply to its own request.
C29_NoForeignReply ==
    \A t \in Threads :
        Succeeded(t) =>
            /\ op.got[t][1].for = t
            /\ \A u \in Threads \ {t} : op.serial[u] # op.serial[t]

(***************************************************************************)
(* The handle after a successful remoteClose                               *)
(***************************************************************************)
\* C30: after remoteClose has returned success the handle is closed for
\* good: its private data says so, and every later operation on it fails
\* with the closed-handle error, makes no call, closes no descriptor and
\* does not hand out the freed type string.
C30_ClosedForever ==
    /\ (op.name = "remoteClose" /\ op.ret = "0") =>
           GET_PRIVATE_returns(Priv)
    /\ (op.name \in DriverOps /\ ~op.chanWasOpen) =>
           /\ GET_PRIVATE_returns(op.before[1])
           /\ op.errs = <<ClosedHandleError>>
           /\ op.calls = <<>>
           /\ op.closes = <<>>
           /\ op.ret # "freed"

(***************************************************************************)
(* Descriptors closed during remoteOpen                                    *)
(***************************************************************************)
\* The sockets remoteOpen has created for the addresses it tried.
SocketsCreated ==
    {i \in DOMAIN op.did.attempts : op.did.attempts[i].fd >= 0}

\* C31: during one remoteOpen over the Tcp, Tls or Unix transport close is
\* issued once at most for each socket created: there are no more closes than
\* sockets.
C31_ClosedAtMostOnce ==
    (op.name = "remoteOpen"
       /\ op.did.transport \in {"trans_tls", "trans_tcp", "trans_unix"}) =>
        Len(op.closes) <= Cardinality(SocketsCreated)

(***************************************************************************)
(* Errors raised during remoteOpen                                         *)
(***************************************************************************)
\* C32: every error raised while remoteOpen is in progress, by remoteOpen
\* itself, while dialling and negotiating, or by the open call and its reads
\* and writes, the server's error reply included, is raised with no
\* connection (NULL).
C32_OpenErrorsWithoutHandle ==
    op.name = "remoteOpen" =>
        /\ \A i \in DOMAIN op.errs : op.errs[i].conn = "NULL"
        /\ \A j \in DOMAIN op.calls :
             \A i \in DOMAIN op.calls[j].errs : op.calls[j].errs[i].conn = "NULL"

\* The server answers the open call with an error, which remoteOpen reports.
C32_Witness ==
    /\ op.name = "remoteOpen"
    /\ op.calls # <<>>
    /\ op.calls[1].errs # <<>>
    /\ op.calls[1].errs[1].info = "server_error"
    /\ op.errs # <<>>
    /\ op.errs[Len(op.errs)].info = "server_error"
    /\ op.errs[Len(op.errs)].conn = "NULL"

(***************************************************************************)
(* The read and write loops                                                *)
(***************************************************************************)
\* The bytes the channel delivers, in order.
Stream == [i \in 1..MaxLen |-> i]

\* No byte was lost or stored twice: the buffer holds up to p what the
\* channel has delivered, and the channel has the rest.
ReadInOrder ==
    /\ SubSeq(op.bytes, 1, op.p) = SubSeq(Stream, 1, op.p)
    /\ op.channel = SubSeq(Stream, op.p + 1, MaxLen)
    /\ \A i \in (op.p + 1)..op.asked : op.bytes[i] = 0

\* The errors really_read may fail with.
ReadFailure ==
    /\ Len(op.errs) = 1
    /\ \/ /\ op.errs[1].code = "VIR_ERR_RPC"
          /\ op.errs[1].info = "socket closed unexpectedly"
       \/ op.errs[1].code =
              (IF op.uses_tls THEN "VIR_ERR_GNUTLS_ERROR"
               ELSE "VIR_ERR_SYSTEM_ERROR")

\* C33 as stated: really_read returns success if and only if exactly the
\* bytes asked for have been stored, in the order of the stream, however the
\* stream is split and interrupted; otherwise it fails with Rpc 'socket
\* closed unexpectedly', or with SystemError (raw) or GnuTlsError (TLS).
C33_ReadAllOrFail ==
    op.name = "really_read" =>
        /\ ReadInOrder
        /\ op.pc = "return" =>
             /\ op.ret = 0 <=> op.p = op.asked
             /\ op.ret = -1 => ReadFailure

\* C34: really_write returns success only after every byte of the buffer was
\* handed to the channel once and in order, however the writes are split and
\* interrupted; a write error that is not transient fails the call with
\* SystemError (raw) or GnuTlsError (TLS).
C34_WriteAllInOrder ==
    op.name = "really_write" =>
        /\ op.channel = SubSeq(op.bytes, 1, op.p)
        /\ op.pc = "return" =>
             /\ op.ret \in {0, -1}
             /\ op.ret = 0 => (op.p = op.asked /\ op.channel = op.bytes
                                 /\ op.errs = <<>>)
             /\ op.ret = -1 =>
                  /\ Len(op.errs) = 1
                  /\ op.errs[1].code =
                         (IF op.uses_tls THEN "VIR_ERR_GNUTLS_ERROR"
                          ELSE "VIR_ERR_SYSTEM_ERROR")

\* A write of two bytes or more that was interrupted and has succeeded.
C34_Witness ==
    /\ op.name = "really_write"
    /\ op.pc = "return"
    /\ op.ret = 0
    /\ op.asked >= 2
    /\ op.retries > 0
    /\ op.channel = op.bytes

(***************************************************************************)
(* The TLS credentials across the opens of one process                     *)
(***************************************************************************)
TlsOpen == op.name = "remoteOpen" /\ op.did.transport = "trans_tls"

\* initialise_gnutls's allocation or one of its loads fails in this open.
LoadsFail == op.d.loads # "loaded"

\* C35: once initialise_gnutls has succeeded, a later call returns success
\* without allocating or loading anything; when it fails, that remoteOpen
\* fails before a socket is created and the flag stays unset, and a later
\* Tls remoteOpen runs the initialisation again, in full when nothing
\* fails.
C35_InitOnceAndAgainAfterFailure ==
    TlsOpen =>
        /\ op.was =>
             /\ op.did.gnutls = <<>>
             /\ initialised
             /\ \A i \in DOMAIN op.errs : op.errs[i].info # op.d.loads
        /\ (~op.was /\ LoadsFail) =>
             /\ op.ret = VIR_DRV_OPEN_ERROR
             /\ ~Installed
             /\ ~initialised
             /\ op.did.gnutls = gnutls_ran(op.d.loads)
             /\ op.did.attempts = <<>>
             /\ op.calls = <<>>
             /\ op.closes = <<>>
             /\ openFds = op.fdsWas
             /\ Len(op.errs) = 1
             /\ op.errs[1].code = "VIR_ERR_GNUTLS_ERROR"
        /\ (~op.was /\ ~LoadsFail) =>
             /\ op.did.gnutls = gnutls_ran("loaded")
             /\ Len(op.did.gnutls) = 4
             /\ initialised

\* A Tls open that succeeds, with the initialisation run in full, after an
\* open in which initialise_gnutls failed.
C35_Witness ==
    /\ TlsOpen
    /\ op.failedBefore
    /\ ~op.was
    /\ Len(op.did.gnutls) = 4
    /\ initialised
    /\ op.ret = VIR_DRV_OPEN_SUCCESS
    /\ Installed

(***************************************************************************)
(* The port                                                                *)
(***************************************************************************)
\* The decimal text of a number: digits only, no leading zero, and read
\* back it is the number.
DecimalOf(str, n) ==
    /\ str # <<>>
    /\ \A i \in DOMAIN str : IsDigit(str[i])
    /\ (Len(str) > 1 => str[1] # "0")
    /\ atoi(str) = n

\* C36: the port is the URI's port when the URI gives one (not 0);
\* otherwise the configured TLS port for tls, the configured TCP port for
\* tcp, 22 for ssh, and none for unix and ext.
C36_PortChosen ==
    op.name = "port" =>
        IF op.u.port # 0
        THEN Len(op.port) = 1 /\ DecimalOf(op.port[1], op.u.port)
        ELSE CASE op.transport = "trans_tls" ->
                    op.port = <<(<<"LIBVIRTD_TLS_PORT">>)>>
               [] op.transport = "trans_tcp" ->
                    op.port = <<(<<"LIBVIRTD_TCP_PORT">>)>>
               [] op.transport = "trans_ssh" ->
                    Len(op.port) = 1 /\ DecimalOf(op.port[1], 22)
               [] op.transport \in {"trans_unix", "trans_ext"} ->
                    op.port = <<>>
               [] OTHER -> FALSE

\* An ssh URI that gives a port of several digits.
C36_Witness ==
    /\ op.name = "port"
    /\ op.transport = "trans_ssh"
    /\ op.u.port > 22
    /\ op.port = <<asprintf_d(op.u.port)>>

(***************************************************************************)
(* The ext transport without a command                                     *)
(***************************************************************************)
\* C37: with the ext transport and no 'command' parameter remoteOpen
\* returns VIR_DRV_OPEN_ERROR with one VIR_ERR_INVALID_ARG, before a socket
\* pair is made or a process forked, and installs no private data.
C37_ExtNeedsCommand ==
    (/\ op.name = "remoteOpen"
     /\ op.did.transport = "trans_ext"
     /\ op.did.x.command = <<>>) =>
        /\ op.ret = VIR_DRV_OPEN_ERROR
        /\ Len(op.errs) = 1
        /\ op.errs[1].code = "VIR_ERR_INVALID_ARG"
        /\ op.errs[1].conn = "NULL"
        /\ NothingCreated
        /\ ~Installed
        /\ op.did.gnutls = <<>>

\* An ext URI without a query string was opened and refused.
C37_Witness ==
    /\ op.name = "remoteOpen"
    /\ op.did.transport = "trans_ext"
    /\ op.u.query = <<>>
    /\ op.ret = VIR_DRV_OPEN_ERROR
    /\ op.did.spawned = <<>>

(***************************************************************************)
(* The product of the sizes of remoteDomainGetVcpus                        *)
(***************************************************************************)
\* The product of a and b, as a number, is greater than limit (limit >= 0):
\* both have the same sign and the magnitudes, compared by division,
\* multiply to more than limit.
ProductExceeds(a, b, limit) ==
    LET p == IF a < 0 THEN -(a + 1) ELSE a - 1
        q == IF b < 0 THEN -(b + 1) ELSE b - 1
    IN  /\ a # 0
        /\ b # 0
        /\ (a < 0) = (b < 0)
        /\ ~(q < limit /\ p <= (limit \div (q + 1)) - 1)

\* C38: remoteDomainGetVcpus fails with an Rpc error, without a call, for
\* all values of maxinfo and maplen whose product, as a number, exceeds
\* REMOTE_CPUMAPS_MAX, the product being computed in 32 bits.
C38_ProductCeiling ==
    (/\ op.name = "remoteDomainGetVcpus"
     /\ op.before[1].magic = MAGIC
     /\ ProductExceeds(op.max, op.maplen, REMOTE_CPUMAPS_MAX)) =>
        /\ op.ret = -1
        /\ RpcErrorRaised
        /\ op.calls = <<>>

(***************************************************************************)
(* TLS on an installed connection                                          *)
(***************************************************************************)
\* The address at which remoteOpen stopped.
LastAttempt == op.did.attempts[Len(op.did.attempts)]

\* C39: an installed connection uses TLS if and only if the transport was
\* tls, and then it has a session whose handshake, certificate check (or
\* the no_verify bypass) and server acknowledgement have succeeded; later
\* operations leave the flag and the session as they are; and only an open
\* that selected tls runs the initialisation of the credentials.
C39_TlsOnlyWhenNegotiated ==
    /\ (op.name = "remoteOpen" /\ Installed) =>
          /\ Priv.uses_tls <=> NamedTransport(op.u) = "trans_tls"
          /\ Priv.uses_tls =>
               /\ Priv.session = "session"
               /\ initialised
               /\ op.did.attempts # <<>>
               /\ LastAttempt.fd = Priv.sock
               /\ \/ LastAttempt.outcome = "connected"
                  \/ /\ LastAttempt.outcome = "verify_fails"
                     /\ NoVerifyOf(op.u) # 0
          /\ ~Priv.uses_tls => Priv.session = "NULL"
    /\ (op.name = "remoteOpen" /\ op.did.gnutls # <<>>) =>
          NamedTransport(op.u) = "trans_tls"
    /\ (op.name \in {"remoteClose", "remoteType", "remoteVersion"}
        /\ Installed) =>
          /\ Priv.uses_tls = op.before[1].uses_tls
          /\ Priv.session = op.before[1].session

\* A tls connection was installed past a certificate that does not verify,
\* no_verify being set.
C39_Witness ==
    /\ op.name = "remoteOpen"
    /\ Installed
    /\ Priv.uses_tls
    /\ Priv.session = "session"
    /\ LastAttempt.outcome = "verify_fails"
    /\ op.did.gnutls # <<>>

=============================================================================
